---------------------------- MODULE Spec2Model ----------------------------
(***************************************************************************)
(* A model of the tokio-raknet session and listener core.                  *)
(*                                                                         *)
(* The module holds several specifications over one set of variables:      *)
(*   SpecQueue   the outbound framing path (Session::queue_packet)         *)
(*   SpecTx      sender side: queue, flush, inbound ACK / NACK ranges      *)
(*   SpecAccount receiver side: datagram sequence accounting, ACK and      *)
(*               NACK ranges                                               *)
(*   SpecDedupe  receiver side: duplicate filter and decode of frames      *)
(*   SpecSplit   receiver side: split assembly                             *)
(*   SpecOrder   one sender and one receiver joined by a lossy,            *)
(*               duplicating, reordering network                           *)
(*   SpecMux     the listener muxer: offline handshake, sessions map,      *)
(*               ticks, announcement to the application                    *)
(*   SpecLife    the muxer with the handles of the application: drop       *)
(*               of the listener and of connections, socket errors, with   *)
(*               the fairness of the tick and of the clock                 *)
(*   SpecBytes   a buffer from RaknetConnection::send to recv              *)
(*   SpecSeq24   Sequence24 next, prev and ordering                        *)
(*   SpecCodec   encode_body and decode_body of the control packets        *)
(*   SpecWire    the wire primitives, Advertisement, RaknetPacket::decode  *)
(*   SpecFrame   encode_raknet and decode_raknet of EncapsulatedPacket     *)
(*   SpecPing    UnconnectedPing and the listener's advertisement          *)
(*   SpecRange   the loop of for_each_sequence_in_range                    *)
(*   SpecAckNak  ACK and NACK ranges that name the same datagram           *)
(*   SpecInbound the stages of handle_encapsulated                         *)
(*   SpecDecode  decode_and_push: unregistered IDs, ACK and NACK frames    *)
(*   SpecErr     the muxer and a datagram with a frame that fails          *)
(*   SpecBlock   the muxer task and a full application channel             *)
(*   SpecIndex   reliable and ordering indices across queued messages      *)
(* Each specification leaves the variables of the other parts unchanged.   *)
(***************************************************************************)
EXTENDS Integers, Sequences, FiniteSets, TLC

(***************************************************************************)
(* Program constants                                                       *)
(***************************************************************************)
MODULO == 16777216

MASK == MODULO - 1

HALF == MODULO \div 2

MAXIMUM_ORDERING_CHANNELS == 16

MAXIMUM_ENCAPSULATED_HEADER_SIZE == 28

RAKNET_DATAGRAM_HEADER_SIZE == 4

UDP_HEADER_SIZE == 8

RAKNET_PROTOCOL_VERSION == 11

SESSION_TIMEOUT == 10000

SESSION_STALE == 5000

U16_MODULUS == 65536

\* The MTU the listener is bound with (RaknetListener::bind(bind_addr, 1400)).
SessionMtu == 1400

(***************************************************************************)
(* Option values: None is -1 for an index, and a record with some = FALSE  *)
(* for split info.                                                         *)
(***************************************************************************)
None == -1

NoSplit == [some |-> FALSE, count |-> 0, id |-> 0, index |-> 0]

SomeSplit(count, id, index) ==
    [some |-> TRUE, count |-> count, id |-> id, index |-> index]

(***************************************************************************)
(* Sequence24                                                              *)
(***************************************************************************)
\* Sequence24::new: v & MASK
Seq24New(v) == v % MODULO

\* A next that does not mask its result
Seq24NextUnmasked(x) == x + 1

\* Sequence24::next
Seq24Next(x) == Seq24New(x + 1)

\* Sequence24::prev
Seq24Prev(x) == IF x = 0 THEN MASK ELSE x - 1

\* impl Add for Sequence24
Seq24Add(a, b) == Seq24New((a + b) % MODULO)

\* b is after a in the half-space: (b - a) mod 2^24 in (0, 2^23)
Seq24After(b, a) ==
    LET d == (b - a + MODULO) % MODULO IN d > 0 /\ d < HALF

(***************************************************************************)
(* Reliability: the seven variants are numbered 0..6                       *)
(***************************************************************************)
Unreliable == 0

UnreliableSequenced == 1

Reliable == 2

ReliableOrdered == 3

ReliableSequenced == 4

UnreliableWithAckReceipt == 5

ReliableWithAckReceipt == 6

Reliabilities == 0..6

IsReliable(rel) == rel \in {2, 3, 4, 6}

IsSequenced(rel) == rel \in {1, 4}

IsOrdered(rel) == rel = 3

(***************************************************************************)
(* Payload bytes.  A payload is a sequence of chunks; a chunk              *)
(* [msg, off, len] stands for bytes off .. off+len-1 of the encoded bytes  *)
(* of application message msg.  Adjacent chunks of one message are merged, *)
(* so two payloads are equal exactly when their bytes are.                 *)
(***************************************************************************)
Chunk(m, off, len) == [msg |-> m, off |-> off, len |-> len]

RECURSIVE Normalise(_)
Normalise(p) ==
    IF Len(p) = 0 THEN <<>>
    ELSE IF p[1].len = 0 THEN Normalise(Tail(p))
    ELSE IF Len(p) = 1 THEN p
    ELSE LET rest == Normalise(Tail(p)) IN
         IF Len(rest) > 0 /\ rest[1].msg = p[1].msg
               /\ rest[1].off = p[1].off + p[1].len
           THEN <<Chunk(p[1].msg, p[1].off, p[1].len + rest[1].len)>> \o Tail(rest)
           ELSE <<p[1]>> \o rest

Concat(p, q) == Normalise(p \o q)

RECURSIVE PayloadLen(_)
PayloadLen(p) == IF Len(p) = 0 THEN 0 ELSE p[1].len + PayloadLen(Tail(p))

\* Bytes::slice(from..) / the first n bytes
RECURSIVE DropBytes(_, _)
DropBytes(p, n) ==
    IF n = 0 \/ Len(p) = 0 THEN p
    ELSE IF p[1].len <= n THEN DropBytes(Tail(p), n - p[1].len)
    ELSE <<Chunk(p[1].msg, p[1].off + n, p[1].len - n)>> \o Tail(p)

RECURSIVE TakeBytes(_, _)
TakeBytes(p, n) ==
    IF n = 0 \/ Len(p) = 0 THEN <<>>
    ELSE IF p[1].len <= n THEN <<p[1]>> \o TakeBytes(Tail(p), n - p[1].len)
    ELSE <<Chunk(p[1].msg, p[1].off, n)>>

\* RaknetPacket::encode of the packet of message m, n bytes with its ID byte
EncodedMessage(m, n) == Normalise(<<Chunk(m, 0, n)>>)

(***************************************************************************)
(* Messages: what the bytes of a payload decode to                         *)
(***************************************************************************)
\* Application message k: RaknetPacket::UserData with an ID of 0x80 or more
UserMessage(k) == [kind |-> "UserData", n |-> k]

\* An ID below 0x80 that no packet is registered for
UnregisteredMessage(k) == [kind |-> "UnknownId", n |-> k]

\* A registered ID followed by fewer body bytes than the packet needs
TruncatedMessage(k) == [kind |-> "UnexpectedEof", n |-> k]

\* EncapsulatedAck / EncapsulatedNak with the one range [k, k]
AckMessage(k) == [kind |-> "EncapsulatedAck", n |-> k]

NakMessage(k) == [kind |-> "EncapsulatedNak", n |-> k]

(***************************************************************************)
(* EncapsulatedPacket                                                      *)
(***************************************************************************)
EncapsulatedPacket(rel, isSplit, bitLength, ridx, sidx, oidx, ochan, split, payload) ==
    [reliability |-> rel, is_split |-> isSplit, needs_bas |-> TRUE,
     bit_length |-> bitLength, reliable_index |-> ridx, sequence_index |-> sidx,
     ordering_index |-> oidx, ordering_channel |-> ochan, split |-> split,
     payload |-> payload]

\* EncapsulatedPacket::payload_len
FramePayloadLen(f) == (f.bit_length + 7) \div 8


(***************************************************************************)
(* Bounds of the model                                                     *)
(***************************************************************************)
\* Messages the application queues in one behaviour of SpecQueue
MaxQueued == 2

\* Messages the application queues in one behaviour of SpecTx
MaxTxQueued == 2

\* ACK or NACK ranges waiting in incoming_acks / incoming_naks
MaxPendingRanges == 1

\* The clock stops at this many steps
MaxTime == 1

\* Retransmission timeout of a tracked datagram, in clock steps
Rto == 1

\* Datagram sequence numbers a behaviour of SpecTx uses: one per queued
\* message and one retransmission
MaxSendSeq == MaxTxQueued + 1

\* The highest datagram sequence number a behaviour of SpecAccount receives
MaxRecvSeq == 13

\* Sequences waiting for the next ACK datagram in SpecAccount
MaxPendingAcks == 3

\* A datagram of SpecAccount is at most this far ahead of the high-watermark
MaxAhead == 3

\* Data datagrams a behaviour of SpecDedupe, SpecSplit or SpecOrder receives
MaxRxDatagrams == 4

\* Messages the sender queues in one behaviour of SpecOrder
MaxOrderQueued == 3

\* Clock samples of a behaviour of SpecMux, SESSION_STALE apart
MaxClockSteps == 3

\* Application messages a peer of SpecMux gets through
MaxInbox == 1

\* Connections the listener of SpecMux announces
MaxAnnounced == 1

(***************************************************************************)
(* State                                                                   *)
(***************************************************************************)
VARIABLES
    now,                \* the clock sample handed to every session call
    \* ---- sending side of a session
    next_reliable,      \* Session.next_reliable
    order_write,        \* Session.order_write: channel -> next ordering index
    outgoing,           \* the outgoing frame queue
    panicked,           \* the task has panicked (index out of range, expect)
    queue_log,          \* history: one entry per queue_packet call
    send_seq,           \* next outgoing datagram sequence number
    sent_datagrams,     \* retransmit map: sequence -> tracked datagram
    incoming_acks,      \* Session.incoming_acks: queue of ranges
    incoming_naks,      \* Session.incoming_naks: queue of ranges
    on_ack_log,         \* sliding.on_ack calls made by the step just taken
    on_nak_log,         \* sliding.on_nak calls made by the step just taken
    emitted,            \* datagrams written by the step just taken
    last_processed,     \* what process_incoming_acks_naks found, if just taken
    flushed_seqs,       \* history: sequences of all tracked datagrams flushed
    acked_seqs          \* history: flushed sequences covered by a processed ACK

VARIABLES
    \* ---- receiving side of a session
    recv_high,          \* receive sequence high-watermark
    pending_acks,       \* sequences queued for the next outgoing ACK
    pending_nacks,      \* sequences queued for the next outgoing NACK
    split_assembler,    \* split id -> entry of the split assembler
    reliable_seen,      \* reliable indices the duplicate window has marked
    order_read,         \* channel -> next ordering index to hand on
    order_queue,        \* <<channel, ordering index>> -> frame held back
    delivered,          \* history: packets handle_data_payload returned
    rx_result,          \* what the last handle_datagram was given and returned
    fed                 \* history: the frames handle_encapsulated was given, and
                        \* those of them given in a call that returned Ok

VARIABLES
    \* ---- the listener muxer
    sessions,           \* peer -> SessionState
    pending,            \* peers with an offline handshake entry
    to_app,             \* peer -> history of the items sent on its to_app channel
    new_conns,          \* history: peers handed over through new_conn_tx
    wire,               \* packets the step just taken wrote to the socket
    received,           \* history: peer -> handshake packets received in order
    mux_event,          \* what the step just taken handled
    ticked,             \* tick_sessions has run at this clock sample
    listener_open,      \* the RaknetListener (receiver of new_conn_tx) exists
    handles_dropped,    \* peers whose connection handle the application dropped
    muxer_running,      \* run_listener_muxer is in its loop
    advertisement,      \* RaknetListener.advertisement, behind its RwLock
    app_taken,          \* peer -> items the application has received from to_app
    awaiting,           \* the to_app send the muxer is suspended in, if any
    call                \* the function just applied: its name, input and result

txVars == <<next_reliable, order_write, outgoing, panicked, queue_log, send_seq,
            sent_datagrams, incoming_acks, incoming_naks, on_ack_log, on_nak_log,
            emitted, last_processed, flushed_seqs, acked_seqs>>

rxAckVars == <<recv_high, pending_acks, pending_nacks>>

rxFrameVars == <<split_assembler, reliable_seen, order_read, order_queue, delivered,
                 rx_result, fed>>

rxVars == <<rxAckVars, rxFrameVars>>

chanVars == <<app_taken, awaiting>>

lifeVars == <<listener_open, handles_dropped, muxer_running, advertisement, chanVars,
              call>>

muxVars == <<sessions, pending, to_app, new_conns, wire, received, mux_event, ticked,
             lifeVars>>

vars == <<now, txVars, rxVars, muxVars>>

(***************************************************************************)
(* Session::queue_packet                                                   *)
(***************************************************************************)
\* The step just taken was not process_incoming_acks_naks
NoProcessing == [sent |-> <<>>, acks |-> <<>>, naks |-> <<>>]

\* A step that calls neither the sliding window nor the socket
NoStepOutput ==
    /\ on_ack_log' = <<>>
    /\ on_nak_log' = <<>>
    /\ emitted' = <<>>
    /\ last_processed' = NoProcessing

\* max_len = mtu - MAXIMUM_ENCAPSULATED_HEADER_SIZE - RAKNET_DATAGRAM_HEADER_SIZE
MaxLen(mtu) == mtu - MAXIMUM_ENCAPSULATED_HEADER_SIZE - RAKNET_DATAGRAM_HEADER_SIZE

\* (payload.len() as u16) << 3
BitLengthOf(len) == ((len % U16_MODULUS) * 8) % U16_MODULUS

\* The ordering counter is read with order_write[channel as usize]
OrderIndexPanics(rel, channel) ==
    IsOrdered(rel) /\ channel >= MAXIMUM_ORDERING_CHANNELS

\* The frames queue_packet builds for message m of len bytes
QueuePacketFrames(m, len, rel, channel, nextRel, orderWrite) ==
    LET payload == EncodedMessage(m, len)
        ordering_index == IF IsOrdered(rel) THEN orderWrite[channel] ELSE None
        reliable_index == IF IsReliable(rel) THEN nextRel ELSE None
    IN  << EncapsulatedPacket(rel, FALSE, BitLengthOf(len), reliable_index, None,
                              ordering_index,
                              IF ordering_index # None THEN channel ELSE None,
                              NoSplit, payload) >>

\* An ordering counter that is never advanced
QueuePacketOrderWriteStuck(rel, channel, orderWrite) == orderWrite

QueuePacketOrderWrite(rel, channel, orderWrite) ==
    IF IsOrdered(rel)
      THEN [orderWrite EXCEPT ![channel] = Seq24Add(orderWrite[channel], Seq24New(1))]
      ELSE orderWrite

\* A reliable counter that every queued message advances
QueuePacketNextReliableAlways(rel, nextRel) == Seq24Next(nextRel)

QueuePacketNextReliable(rel, nextRel) ==
    IF IsReliable(rel) THEN Seq24Next(nextRel) ELSE nextRel

QueuePacket(len, rel, channel) ==
    /\ ~panicked
    /\ IF OrderIndexPanics(rel, channel)
         THEN /\ panicked' = TRUE
              /\ UNCHANGED <<next_reliable, order_write, outgoing, queue_log>>
         ELSE LET m == UserMessage(Len(queue_log) + 1)
                  frames == QueuePacketFrames(m, len, rel, channel,
                                              next_reliable, order_write)
              IN  /\ order_write' = QueuePacketOrderWrite(rel, channel, order_write)
                  /\ next_reliable' = QueuePacketNextReliable(rel, next_reliable)
                  /\ outgoing' = outgoing \o frames
                  /\ queue_log' = Append(queue_log,
                         [len |-> len, reliability |-> rel, channel |-> channel,
                          mtu |-> SessionMtu, frames |-> frames,
                          reliable_before |-> next_reliable,
                          order_before |-> order_write])
                  /\ UNCHANGED panicked
    /\ NoStepOutput
    /\ UNCHANGED <<now, send_seq, sent_datagrams, incoming_acks, incoming_naks,
                   flushed_seqs, acked_seqs>>

(***************************************************************************)
(* Maps with a changing domain                                             *)
(***************************************************************************)
EmptyMap == [k \in {} |-> 0]

MapRemove(f, k) == [x \in DOMAIN f \ {k} |-> f[x]]

MapInsert(f, k, v) == [x \in DOMAIN f \cup {k} |-> IF x = k THEN v ELSE f[x]]

(***************************************************************************)
(* Inbound ACK / NACK ranges                                               *)
(***************************************************************************)
SequenceRange(start, end) == [start |-> start, end |-> end]

\* Steps of next() from range.start to seq
RangeOffset(seq, range) == (seq - range.start + MODULO) % MODULO

\* Session::for_each_sequence_in_range walks from start with next() and stops
\* after end.  The handlers do nothing for a sequence that is not a key of the
\* map, so the walk is given by the keys it meets, in the order it meets them.
RECURSIVE InWalkOrder(_, _)
InWalkOrder(keys, range) ==
    IF keys = {} THEN <<>>
    ELSE LET first == CHOOSE k \in keys :
                          \A j \in keys : RangeOffset(k, range) <= RangeOffset(j, range)
         IN  <<first>> \o InWalkOrder(keys \ {first}, range)

\* A walk that stops before range.end
ForEachSequenceBeforeEnd(range, keys) ==
    InWalkOrder({k \in keys : RangeOffset(k, range) < RangeOffset(range.end, range)},
                range)

ForEachSequenceInRange(range, keys) ==
    InWalkOrder({k \in keys : RangeOffset(k, range) <= RangeOffset(range.end, range)},
                range)

\* Session::handle_ack_payload
HandleAckPayload(ranges) ==
    /\ ~panicked
    /\ incoming_acks' = incoming_acks \o ranges
    /\ NoStepOutput
    /\ UNCHANGED <<now, next_reliable, order_write, outgoing, panicked, queue_log,
                   send_seq, sent_datagrams, incoming_naks, flushed_seqs, acked_seqs>>

\* Session::handle_nack_payload
HandleNackPayload(ranges) ==
    /\ ~panicked
    /\ incoming_naks' = incoming_naks \o ranges
    /\ NoStepOutput
    /\ UNCHANGED <<now, next_reliable, order_write, outgoing, panicked, queue_log,
                   send_seq, sent_datagrams, incoming_acks, flushed_seqs, acked_seqs>>

\* A closure that reads the entry and leaves it in the map
RECURSIVE AckSequencesKeeping(_, _)
AckSequencesKeeping(st, seqs) ==
    IF Len(seqs) = 0 THEN st
    ELSE LET seq == Head(seqs)
             tracked == st.sent[seq]
         IN  AckSequencesKeeping(
                 [sent |-> st.sent,
                  log |-> IF tracked.payload = "EncapsulatedPackets"
                            THEN Append(st.log, [seq |-> seq,
                                                 send_time |-> tracked.send_time])
                            ELSE st.log],
                 Tail(seqs))

\* The closure of process_incoming_acks for the sequences of one range, in
\* walk order: st = [sent, log]
RECURSIVE AckSequences(_, _)
AckSequences(st, seqs) ==
    IF Len(seqs) = 0 THEN st
    ELSE LET seq == Head(seqs)
             tracked == st.sent[seq]
         IN  AckSequences(
                 [sent |-> MapRemove(st.sent, seq),
                  log |-> IF tracked.payload = "EncapsulatedPackets"
                            THEN Append(st.log, [seq |-> seq,
                                                 send_time |-> tracked.send_time])
                            ELSE st.log],
                 Tail(seqs))

\* Session::process_incoming_acks: st = [sent, log]
RECURSIVE ProcessIncomingAcks(_, _)
ProcessIncomingAcks(st, ranges) ==
    IF Len(ranges) = 0 THEN st
    ELSE ProcessIncomingAcks(
             AckSequences(st, ForEachSequenceInRange(Head(ranges), DOMAIN st.sent)),
             Tail(ranges))

\* A closure that takes the entry out and does not put it back
RECURSIVE NakSequencesRemoving(_, _, _)
NakSequencesRemoving(st, seqs, t) ==
    IF Len(seqs) = 0 THEN st
    ELSE NakSequencesRemoving([sent |-> MapRemove(st.sent, Head(seqs)),
                               log |-> Append(st.log, Head(seqs))],
                              Tail(seqs), t)

\* The closure of process_incoming_naks for the sequences of one range
RECURSIVE NakSequences(_, _, _)
NakSequences(st, seqs, t) ==
    IF Len(seqs) = 0 THEN st
    ELSE LET seq == Head(seqs)
             tracked == st.sent[seq]
         IN  NakSequences(
                 IF tracked.payload = "EncapsulatedPackets"
                   THEN [sent |-> MapInsert(MapRemove(st.sent, seq), seq,
                                            [tracked EXCEPT !.next_send = t]),
                         log |-> Append(st.log, seq)]
                   ELSE [sent |-> MapRemove(st.sent, seq), log |-> st.log],
                 Tail(seqs), t)

\* Session::process_incoming_naks: st = [sent, log]
RECURSIVE ProcessIncomingNaks(_, _, _)
ProcessIncomingNaks(st, ranges, t) ==
    IF Len(ranges) = 0 THEN st
    ELSE ProcessIncomingNaks(
             NakSequences(st, ForEachSequenceInRange(Head(ranges), DOMAIN st.sent), t),
             Tail(ranges), t)

\* Whether claim-level range r names sequence s: (s - start) mod 2^24 is at
\* most (end - start) mod 2^24
Covers(r, s) ==
    ((s - r.start) % MODULO) <= ((r.end - r.start) % MODULO)

\* A session that reads the NACK ranges before the ACK ranges
ProcessIncomingNaksAcks ==
    /\ ~panicked
    /\ incoming_acks # <<>> \/ incoming_naks # <<>>
    /\ LET afterNaks == ProcessIncomingNaks([sent |-> sent_datagrams, log |-> <<>>],
                                            incoming_naks, now)
           afterAcks == ProcessIncomingAcks([sent |-> afterNaks.sent, log |-> <<>>],
                                            incoming_acks)
       IN  /\ sent_datagrams' = afterAcks.sent
           /\ on_ack_log' = afterAcks.log
           /\ on_nak_log' = afterNaks.log
    /\ incoming_acks' = <<>>
    /\ incoming_naks' = <<>>
    /\ acked_seqs' = acked_seqs \cup
           {s \in flushed_seqs :
               \E i \in 1..Len(incoming_acks) : Covers(incoming_acks[i], s)}
    /\ emitted' = <<>>
    /\ last_processed' = [sent |-> sent_datagrams, acks |-> incoming_acks,
                          naks |-> incoming_naks]
    /\ UNCHANGED <<now, next_reliable, order_write, outgoing, panicked, queue_log,
                   send_seq, flushed_seqs>>

\* Session::process_incoming_acks_naks
ProcessIncomingAcksNaks ==
    /\ ~panicked
    /\ incoming_acks # <<>> \/ incoming_naks # <<>>
    /\ LET afterAcks == ProcessIncomingAcks([sent |-> sent_datagrams, log |-> <<>>],
                                            incoming_acks)
           afterNaks == ProcessIncomingNaks([sent |-> afterAcks.sent, log |-> <<>>],
                                            incoming_naks, now)
       IN  /\ sent_datagrams' = afterNaks.sent
           /\ on_ack_log' = afterAcks.log
           /\ on_nak_log' = afterNaks.log
    /\ incoming_acks' = <<>>
    /\ incoming_naks' = <<>>
    /\ acked_seqs' = acked_seqs \cup
           {s \in flushed_seqs :
               \E i \in 1..Len(incoming_acks) : Covers(incoming_acks[i], s)}
    /\ emitted' = <<>>
    /\ last_processed' = [sent |-> sent_datagrams, acks |-> incoming_acks,
                          naks |-> incoming_naks]
    /\ UNCHANGED <<now, next_reliable, order_write, outgoing, panicked, queue_log,
                   send_seq, flushed_seqs>>

(***************************************************************************)
(* Inbound data datagrams                                                  *)
(***************************************************************************)
\* No handle_datagram since the last flush
NoDatagram ==
    [seq |-> None, high |-> None, acks |-> {}, nacks |-> {}, err |-> "none",
     out |-> <<>>]

\* The gap with the new sequence itself counted as missing
GapSequencesInclusive(high, seq) ==
    {Seq24Add(high, k) : k \in 1..((seq - high + MODULO) % MODULO)}

\* The sequences strictly between the high-watermark and seq, by next()
GapSequences(high, seq) ==
    {Seq24Add(high, k) : k \in 1..(((seq - high + MODULO) % MODULO) - 1)}

\* Receive accounting: r = [high, acks, nacks]
ReceiveAccounting(r, seq) ==
    IF Seq24After(seq, r.high)
      THEN [high |-> seq, acks |-> r.acks \cup {seq},
            nacks |-> r.nacks \cup GapSequences(r.high, seq)]
      ELSE [r EXCEPT !.acks = r.acks \cup {seq}]

\* The packet handed on for a payload decoded as UserData
UserData(payload) == [kind |-> "UserData", bytes |-> payload]

\* RaknetPacket::decode of a frame payload: the kind of what it finds
DecodeOutcome(payload) ==
    IF Len(payload) = 0 THEN "UnexpectedEof" ELSE payload[1].msg.kind

\* Session::decode_and_push: st = [asm, seen, oread, oqueue, acks, naks, out, err]
DecodeAndPush(st, enc) ==
    LET outcome == DecodeOutcome(enc.payload) IN
    CASE outcome = "UnknownId" ->
             [st EXCEPT !.out = Append(st.out,
                                       UserData(Concat(TakeBytes(enc.payload, 1),
                                                       DropBytes(enc.payload, 1))))]
      [] outcome = "UnexpectedEof" -> [st EXCEPT !.err = outcome]
      [] outcome = "EncapsulatedAck" ->
             [st EXCEPT !.acks = st.acks \o <<SequenceRange(enc.payload[1].msg.n,
                                                            enc.payload[1].msg.n)>>]
      [] outcome = "EncapsulatedNak" ->
             [st EXCEPT !.naks = st.naks \o <<SequenceRange(enc.payload[1].msg.n,
                                                            enc.payload[1].msg.n)>>]
      [] OTHER -> [st EXCEPT !.out = Append(st.out, UserData(enc.payload))]

\* The split assembler: all slots of an entry are written
SplitComplete(entry) == DOMAIN entry.slots = 0..(entry.count - 1)

RECURSIVE ConcatSlots(_, _)
ConcatSlots(entry, i) ==
    IF i = entry.count THEN <<>>
    ELSE Concat(entry.slots[i].payload, ConcatSlots(entry, i + 1))

\* The synthetic non-split packet of a complete entry
Reassembled(entry) ==
    LET first == entry.slots[0]
        payload == ConcatSlots(entry, 0)
    IN  EncapsulatedPacket(first.reliability, FALSE, BitLengthOf(PayloadLen(payload)),
                           first.reliable_index, first.sequence_index,
                           first.ordering_index, first.ordering_channel, NoSplit,
                           payload)

\* SplitAssembler::add: [asm, result, pkt] with result "some", "none" or an error
SplitAssemblerAdd(asm, enc) ==
    IF ~enc.is_split \/ ~enc.split.some
      THEN [asm |-> asm, result |-> "some", pkt |-> enc]
    ELSE IF enc.split.index >= enc.split.count
      THEN [asm |-> asm, result |-> "InvalidSplit", pkt |-> enc]
    ELSE LET id == enc.split.id
             entry == IF id \in DOMAIN asm THEN asm[id]
                      ELSE [count |-> enc.split.count, slots |-> EmptyMap]
             filled == [entry EXCEPT !.slots = MapInsert(entry.slots, enc.split.index, enc)]
         IN  IF enc.split.index >= entry.count
               THEN [asm |-> asm, result |-> "InvalidSplit", pkt |-> enc]
             ELSE IF enc.split.index \in DOMAIN entry.slots
               THEN [asm |-> asm, result |-> "none", pkt |-> enc]
             ELSE IF SplitComplete(filled)
               THEN [asm |-> MapRemove(asm, id), result |-> "some",
                     pkt |-> Reassembled(filled)]
             ELSE [asm |-> MapInsert(asm, id, filled), result |-> "none", pkt |-> enc]

\* Session::process_reliable_index: TRUE for an index not seen before
ProcessReliableIndex(seen, ridx) == ridx \notin seen

\* Session::handle_ordered hands on what is contiguous from the expected index
RECURSIVE DrainOrdered(_, _)
DrainOrdered(st, ch) ==
    LET key == <<ch, st.oread[ch]>> IN
    IF st.err # "none" \/ key \notin DOMAIN st.oqueue THEN st
    ELSE DrainOrdered(
             DecodeAndPush([st EXCEPT !.oqueue = MapRemove(st.oqueue, key),
                                      !.oread[ch] = Seq24Next(st.oread[ch])],
                           st.oqueue[key]),
             ch)

\* Session::handle_ordered
HandleOrdered(st, enc) ==
    LET ch == enc.ordering_channel
        idx == enc.ordering_index
        key == <<ch, idx>>
    IN  IF idx # st.oread[ch] /\ ~Seq24After(idx, st.oread[ch]) THEN st
        ELSE DrainOrdered(
                 IF key \in DOMAIN st.oqueue THEN st
                 ELSE [st EXCEPT !.oqueue = MapInsert(st.oqueue, key, enc)],
                 ch)

\* A handler that hands a fragment on without waiting for the others
HandleEncapsulatedUnassembled(st, frame) ==
    IF IsReliable(frame.reliability)
          /\ ~ProcessReliableIndex(st.seen, frame.reliable_index) THEN st
    ELSE DecodeAndPush([st EXCEPT !.seen = st.seen \cup {frame.reliable_index}], frame)

\* A handler that checks and marks the duplicate window before split assembly
HandleEncapsulatedDedupeFirst(st, frame) ==
    IF IsReliable(frame.reliability) /\ frame.reliable_index # None
          /\ ~ProcessReliableIndex(st.seen, frame.reliable_index) THEN st
    ELSE LET st0 == IF IsReliable(frame.reliability) /\ frame.reliable_index # None
                      THEN [st EXCEPT !.seen = st.seen \cup {frame.reliable_index}]
                      ELSE st
             assembled == SplitAssemblerAdd(st0.asm, frame)
             enc == assembled.pkt
             st1 == [st0 EXCEPT !.asm = assembled.asm]
         IN  IF assembled.result = "none" THEN st1
             ELSE IF assembled.result # "some" THEN [st1 EXCEPT !.err = assembled.result]
             ELSE IF IsOrdered(enc.reliability) THEN HandleOrdered(st1, enc)
             ELSE DecodeAndPush(st1, enc)

\* Session::handle_encapsulated
HandleEncapsulated(st, frame) ==
    LET assembled == SplitAssemblerAdd(st.asm, frame)
        enc == assembled.pkt
        st1 == [st EXCEPT !.asm = assembled.asm]
        st2 == IF IsReliable(enc.reliability) /\ enc.reliable_index # None
                 THEN [st1 EXCEPT !.seen = st1.seen \cup {enc.reliable_index}]
                 ELSE st1
    IN  IF assembled.result = "none" THEN st1
        ELSE IF assembled.result # "some" THEN [st1 EXCEPT !.err = assembled.result]
        ELSE IF IsReliable(enc.reliability) /\ enc.reliable_index = None THEN st1
        ELSE IF IsReliable(enc.reliability)
                  /\ ~ProcessReliableIndex(st1.seen, enc.reliable_index) THEN st1
        ELSE IF IsOrdered(enc.reliability) THEN HandleOrdered(st2, enc)
        ELSE DecodeAndPush(st2, enc)

\* Session::handle_data_payload: the frames in turn, up to the first error
RECURSIVE HandleDataPayload(_, _)
HandleDataPayload(st, frames) ==
    IF Len(frames) = 0 \/ st.err # "none" THEN st
    ELSE HandleDataPayload(HandleEncapsulated(st, Head(frames)), Tail(frames))

\* A handle_data_payload that returns what it had collected before the error
PayloadResultPartial(st) == st.out

\* handle_data_payload returns Ok(out), or by `?` the error alone: out is dropped
PayloadResult(st) == IF st.err = "none" THEN st.out ELSE <<>>

\* handle_datagram for a data datagram: receive accounting, then the frames
HandleDatagram(seq, frames) ==
    /\ ~panicked
    /\ LET acc == ReceiveAccounting([high |-> recv_high, acks |-> pending_acks,
                                     nacks |-> pending_nacks], seq)
           st == HandleDataPayload(
                     [asm |-> split_assembler, seen |-> reliable_seen,
                      oread |-> order_read, oqueue |-> order_queue,
                      acks |-> incoming_acks, naks |-> incoming_naks,
                      out |-> <<>>, err |-> "none"],
                     frames)
           out == PayloadResult(st)
       IN  /\ recv_high' = acc.high
           /\ pending_acks' = acc.acks
           /\ pending_nacks' = acc.nacks
           /\ split_assembler' = st.asm
           /\ reliable_seen' = st.seen
           /\ order_read' = st.oread
           /\ order_queue' = st.oqueue
           /\ incoming_acks' = st.acks
           /\ incoming_naks' = st.naks
           /\ delivered' = delivered \o out
           /\ fed' = [all |-> fed.all \cup {frames[i] : i \in 1..Len(frames)},
                      ok |-> IF st.err = "none"
                               THEN fed.ok \cup {frames[i] : i \in 1..Len(frames)}
                               ELSE fed.ok]
           /\ rx_result' = [seq |-> seq, high |-> recv_high, acks |-> pending_acks,
                            nacks |-> pending_nacks, err |-> st.err, out |-> out]
    /\ NoStepOutput
    /\ UNCHANGED <<now, next_reliable, order_write, outgoing, panicked, queue_log,
                   send_seq, sent_datagrams, flushed_seqs, acked_seqs>>

(***************************************************************************)
(* Flush                                                                   *)
(***************************************************************************)
\* Bytes EncapsulatedPacket::encode_raknet writes for a frame
FrameSize(f) ==
    3 + (IF IsReliable(f.reliability) THEN 3 ELSE 0)
      + (IF IsSequenced(f.reliability) THEN 3 ELSE 0)
      + (IF IsOrdered(f.reliability) \/ IsSequenced(f.reliability) THEN 4 ELSE 0)
      + (IF f.is_split THEN 10 ELSE 0)
      + PayloadLen(f.payload)

\* Frame bytes one datagram may carry
DatagramCapacity(mtu) == mtu - UDP_HEADER_SIZE - RAKNET_DATAGRAM_HEADER_SIZE

\* Greedy packing of the queued frames into datagrams
RECURSIVE PackFrames(_, _, _, _)
PackFrames(frames, cur, curSize, cap) ==
    IF Len(frames) = 0 THEN (IF Len(cur) = 0 THEN <<>> ELSE <<cur>>)
    ELSE LET f == Head(frames) IN
         IF Len(cur) = 0 \/ curSize + FrameSize(f) <= cap
           THEN PackFrames(Tail(frames), Append(cur, f), curSize + FrameSize(f), cap)
           ELSE <<cur>> \o PackFrames(frames, <<>>, 0, cap)

HasReliableFrame(frames) ==
    \E i \in 1..Len(frames) : IsReliable(frames[i].reliability)

DataDatagram(seq, frames) ==
    [kind |-> "data", sequence |-> seq, frames |-> frames, ranges |-> <<>>]

AckDatagram(kind, ranges) ==
    [kind |-> kind, sequence |-> 0, frames |-> <<>>, ranges |-> ranges]

Tracked(frames, t) ==
    [payload |-> "EncapsulatedPackets", frames |-> frames, send_time |-> t,
     next_send |-> t + Rto]

\* The sequences of a set as the shortest list of inclusive ranges, ascending
RECURSIVE ToRanges(_)
ToRanges(seqs) ==
    IF seqs = {} THEN <<>>
    ELSE LET lo == CHOOSE x \in seqs : \A y \in seqs : x <= y
             hi == CHOOSE x \in seqs :
                       /\ x >= lo
                       /\ \A y \in lo..x : y \in seqs
                       /\ x + 1 \notin seqs
         IN  <<SequenceRange(lo, hi)>> \o ToRanges(seqs \ (lo..hi))

\* Step 3: every tracked datagram that is due goes out again under a fresh
\* sequence number: st = [sent, seq, out]
RECURSIVE RetransmitDue(_, _, _)
RetransmitDue(st, due, t) ==
    IF due = {} THEN st
    ELSE LET s == CHOOSE x \in due : \A y \in due : x <= y
             frames == st.sent[s].frames
         IN  RetransmitDue(
                 [sent |-> MapInsert(MapRemove(st.sent, s), st.seq, Tracked(frames, t)),
                  seq |-> Seq24Next(st.seq),
                  out |-> Append(st.out, DataDatagram(st.seq, frames))],
                 due \ {s}, t)

\* Step 4: new frames go out packed; a datagram with a reliable frame is tracked
RECURSIVE SendNew(_, _, _)
SendNew(st, datagrams, t) ==
    IF Len(datagrams) = 0 THEN st
    ELSE LET frames == Head(datagrams) IN
         SendNew(
             [sent |-> IF HasReliableFrame(frames)
                         THEN MapInsert(st.sent, st.seq, Tracked(frames, t))
                         ELSE st.sent,
              seq |-> Seq24Next(st.seq),
              out |-> Append(st.out, DataDatagram(st.seq, frames))],
             Tail(datagrams), t)

FlushResult ==
    LET acks == IF pending_acks = {} THEN <<>>
                ELSE <<AckDatagram("ack", ToRanges(pending_acks))>>
        nacks == IF pending_nacks = {} THEN <<>>
                 ELSE <<AckDatagram("nack", ToRanges(pending_nacks))>>
        due == {s \in DOMAIN sent_datagrams : sent_datagrams[s].next_send <= now}
        retx == RetransmitDue([sent |-> sent_datagrams, seq |-> send_seq,
                               out |-> acks \o nacks], due, now)
    IN  SendNew(retx, PackFrames(outgoing, <<>>, 0, DatagramCapacity(SessionMtu)), now)

TrackedSeqs(out) ==
    {out[i].sequence : i \in {j \in 1..Len(out) :
                                 out[j].kind = "data" /\ HasReliableFrame(out[j].frames)}}

Flush ==
    /\ ~panicked
    /\ LET r == FlushResult IN
          /\ sent_datagrams' = r.sent
          /\ send_seq' = r.seq
          /\ emitted' = r.out
          /\ flushed_seqs' = flushed_seqs \cup TrackedSeqs(r.out)
    /\ outgoing' = <<>>
    /\ pending_acks' = {}
    /\ pending_nacks' = {}
    /\ on_ack_log' = <<>>
    /\ on_nak_log' = <<>>
    /\ last_processed' = NoProcessing
    /\ rx_result' = NoDatagram
    /\ UNCHANGED <<now, next_reliable, order_write, panicked, queue_log, incoming_acks,
                   incoming_naks, acked_seqs, recv_high, split_assembler, reliable_seen,
                   order_read, order_queue, delivered, fed>>

\* The clock moves on
AdvanceTime ==
    /\ now < MaxTime
    /\ now' = now + 1
    /\ NoStepOutput
    /\ UNCHANGED <<next_reliable, order_write, outgoing, panicked, queue_log, send_seq,
                   sent_datagrams, incoming_acks, incoming_naks, flushed_seqs,
                   acked_seqs, rxVars>>

(***************************************************************************)
(* The listener muxer                                                      *)
(***************************************************************************)
Peers == {"p1", "p2"}

\* RaknetListener::bind: the advertisement a new listener holds, "MCPE;..."
\* (its first five bytes)
DefaultAdvertisement == <<77, 67, 80, 69, 59>>

ServerGuid == "server_guid"

\* UDP payloads: an offline packet, a data datagram with one packet, nothing
OfflineBytes(kind, version) ==
    [kind |-> kind, protocol_version |-> version, packet |-> "none"]

DatagramBytes(packet) ==
    [kind |-> "Datagram", protocol_version |-> 0, packet |-> packet]

EmptyBytes == [kind |-> "Empty", protocol_version |-> 0, packet |-> "none"]

\* Datagram::decode returns Ok.  An offline packet is its ID and the magic:
\* read as a datagram its first frame has a bit_length of 0xfefe or 0xffff and
\* more payload bytes than a UDP read holds; nothing is shorter than a header.
DatagramDecodes(bytes) == bytes.kind = "Datagram"

\* is_offline_packet_id(bytes[0])
IsOfflinePacketId(bytes) ==
    bytes.kind \in {"OpenConnectionRequest1", "OpenConnectionRequest2"}

\* A packet written to the socket
Packet(id) == [id |-> id, protocol |-> 0, server_guid |-> ""]

IncompatibleProtocolVersion(protocol, guid) ==
    [id |-> "IncompatibleProtocolVersion", protocol |-> protocol, server_guid |-> guid]

Sent(to, pkt) == [to |-> to, pkt |-> pkt]

\* Items of a to_app channel
Disconnected(reason) == [item |-> "Disconnected", reason |-> reason]

ConnectionClosed == [item |-> "ConnectionClosed", reason |-> "None"]

AppBytes == [item |-> "Bytes", reason |-> "None"]

\* SessionState with a new ManagedSession
NewSessionState(t) ==
    [state |-> "Connecting", reason |-> "None", last_activity |-> t, pinged |-> FALSE,
     announced |-> FALSE, pending_rx |-> TRUE]

\* sessions.entry(peer).or_insert_with(..)
EntryOrInsert(sess, p, t) ==
    IF p \in DOMAIN sess THEN sess ELSE MapInsert(sess, p, NewSessionState(t))

\* flush_managed: the session checks its timers and writes what it has queued
\* m = [sessions, pending, to_app, new_conns, wire]
FlushManaged(m, p, t) ==
    LET s == m.sessions[p]
        idle == t - s.last_activity
    IN  IF s.state # "Closed" /\ idle >= SESSION_TIMEOUT
          THEN [m EXCEPT !.sessions[p].state = "Closed",
                         !.sessions[p].reason = "TimedOut"]
        ELSE IF s.state = "Connected" /\ idle >= SESSION_STALE /\ ~s.pinged
          THEN [m EXCEPT !.sessions[p].pinged = TRUE,
                         !.wire = Append(m.wire, Sent(p, Packet("ConnectedPing")))]
        ELSE m

\* A data datagram whose first frame is an application message and whose
\* second frame has a payload that ends inside a registered packet's body
TruncatedFrames ==
    << EncapsulatedPacket(Unreliable, FALSE, BitLengthOf(10), None, None, None, None,
                          NoSplit, <<Chunk(UserMessage(1), 0, 10)>>),
       EncapsulatedPacket(Unreliable, FALSE, BitLengthOf(1), None, None, None, None,
                          NoSplit, <<Chunk(TruncatedMessage(2), 0, 1)>>) >>

\* What handle_data_payload returns for the frames to a session that holds
\* no fragments and no ordered messages
FramesResult(frames) ==
    PayloadResult(HandleDataPayload(
        [asm |-> EmptyMap, seen |-> {},
         oread |-> [c \in 0..(MAXIMUM_ORDERING_CHANNELS - 1) |-> 0],
         oqueue |-> EmptyMap, acks |-> <<>>, naks |-> <<>>,
         out |-> <<>>, err |-> "none"],
        frames))

\* ManagedSession::handle_datagram: [session, pkts, replies]; an Err result
\* gives the muxer no packets (`if let Ok(pkts)`)
ManagedHandleDatagram(s, packet, t) ==
    LET active == [s EXCEPT !.last_activity = t, !.pinged = FALSE] IN
    IF s.state = "Closed" THEN [session |-> s, pkts |-> <<>>, replies |-> <<>>]
    ELSE IF packet = "UserDataTruncated"
      THEN [session |-> active,
            pkts |-> IF s.state = "Connected"
                       THEN [i \in 1..Len(FramesResult(TruncatedFrames)) |-> AppBytes]
                       ELSE <<>>,
            replies |-> <<>>]
    ELSE IF packet = "ConnectionRequest" /\ s.state = "Connecting"
      THEN [session |-> [active EXCEPT !.state = "Connected"], pkts |-> <<>>,
            replies |-> <<Packet("ConnectionRequestAccepted")>>]
    ELSE IF packet = "DisconnectionNotification"
      THEN [session |-> [active EXCEPT !.state = "Closed",
                                       !.reason = "ClosedByRemotePeer"],
            pkts |-> <<>>, replies |-> <<>>]
    ELSE IF packet = "UserData" /\ s.state = "Connected"
      THEN [session |-> active, pkts |-> <<AppBytes>>, replies |-> <<>>]
    ELSE [session |-> active, pkts |-> <<>>, replies |-> <<>>]

\* The error item a Closed session ends its channel with
CloseNoticeGeneric(s) == ConnectionClosed

CloseNotice(s) ==
    IF s.reason # "None" THEN Disconnected(s.reason) ELSE ConnectionClosed

\* An announcement that looks only at the connection state
MaybeAnnounceAgain(m, p) ==
    IF m.sessions[p].state # "Connected" THEN m
    ELSE [m EXCEPT !.sessions[p].pending_rx = FALSE,
                   !.sessions[p].announced = TRUE,
                   !.new_conns = Append(m.new_conns, p)]

\* maybe_announce_connection
MaybeAnnounceConnection(m, p) ==
    LET s == m.sessions[p] IN
    IF s.announced \/ s.state # "Connected" THEN m
    ELSE IF s.pending_rx
      THEN IF m.accepting
             THEN [m EXCEPT !.sessions[p].pending_rx = FALSE,
                            !.sessions[p].announced = TRUE,
                            !.new_conns = Append(m.new_conns, p)]
             ELSE [m EXCEPT !.sessions[p].pending_rx = FALSE,
                            !.sessions[p].announced = FALSE]
    ELSE m

\* A datagram path that sends the terminal error and keeps the session
HandleIncomingUdpKeeping(m, p, bytes, t) ==
    LET sess == EntryOrInsert(m.sessions, p, t)
        r == ManagedHandleDatagram(sess[p], bytes.packet, t)
        m1 == [m EXCEPT !.sessions = MapInsert(sess, p, r.session),
                        !.to_app[p] = m.to_app[p] \o r.pkts,
                        !.wire = m.wire \o [i \in 1..Len(r.replies) |->
                                               Sent(p, r.replies[i])]]
        m2 == FlushManaged(MaybeAnnounceConnection(m1, p), p, t)
        s == m2.sessions[p]
    IN  IF s.state = "Closed" /\ s.announced
          THEN [m2 EXCEPT !.to_app[p] = Append(m2.to_app[p], CloseNotice(s))]
          ELSE m2

\* handle_incoming_udp for bytes that decode as a datagram
HandleIncomingUdp(m, p, bytes, t) ==
    LET sess == EntryOrInsert(m.sessions, p, t)
        r == ManagedHandleDatagram(sess[p], bytes.packet, t)
        m1 == [m EXCEPT !.sessions = MapInsert(sess, p, r.session),
                        !.to_app[p] = m.to_app[p] \o r.pkts,
                        !.wire = m.wire \o [i \in 1..Len(r.replies) |->
                                               Sent(p, r.replies[i])]]
        m2 == FlushManaged(MaybeAnnounceConnection(m1, p), p, t)
        s == m2.sessions[p]
    IN  IF s.state = "Closed"
          THEN [m2 EXCEPT !.to_app[p] = IF s.announced
                                          THEN Append(m2.to_app[p], CloseNotice(s))
                                          ELSE m2.to_app[p],
                          !.sessions = MapRemove(m2.sessions, p)]
          ELSE m2

\* handle_offline; keep says whether a version mismatch leaves the peer's
\* pending entry in place
HandleOffline(m, p, bytes, keep) ==
    IF bytes.kind = "OpenConnectionRequest1"
      THEN IF bytes.protocol_version = RAKNET_PROTOCOL_VERSION
             THEN [m EXCEPT !.pending = m.pending \cup {p},
                            !.wire = Append(m.wire, Sent(p, Packet("OpenConnectionReply1")))]
             ELSE [m EXCEPT !.pending = IF keep THEN m.pending ELSE m.pending \ {p},
                            !.wire = Append(m.wire,
                                Sent(p, IncompatibleProtocolVersion(RAKNET_PROTOCOL_VERSION,
                                                                    ServerGuid)))]
    ELSE IF bytes.kind = "OpenConnectionRequest2" /\ p \in m.pending
      THEN [m EXCEPT !.pending = m.pending \ {p},
                     !.sessions = EntryOrInsert(m.sessions, p, now),
                     !.wire = Append(m.wire, Sent(p, Packet("OpenConnectionReply2")))]
    ELSE m

\* A muxer that takes every peer to have a session
HasSessionAlways(sess, p) == TRUE

\* sessions.contains_key(&peer)
HasSession(sess, p) == p \in DOMAIN sess

\* A muxer that keeps the session whose datagram failed to decode
DropSessionNot(sess, p) == sess

\* sessions.remove(&peer) after a failed decode
DropSession(sess, p) == MapRemove(sess, p)

\* A dispatch that gives every datagram that decodes to a session, new or not
DispatchDatagramEager(m, p, bytes, t, keep) ==
    IF DatagramDecodes(bytes) THEN HandleIncomingUdp(m, p, bytes, t)
    ELSE IF bytes.kind = "Empty" THEN m
    ELSE HandleOffline([m EXCEPT !.sessions = DropSession(m.sessions, p)], p, bytes, keep)

\* dispatch_datagram
DispatchDatagram(m, p, bytes, t, keep) ==
    IF HasSession(m.sessions, p)
      THEN IF DatagramDecodes(bytes)
             THEN HandleIncomingUdp(m, p, bytes, t)
             ELSE HandleOffline([m EXCEPT !.sessions = DropSession(m.sessions, p)],
                                p, bytes, keep)
    ELSE IF bytes.kind = "Empty" THEN m
    ELSE IF IsOfflinePacketId(bytes) THEN HandleOffline(m, p, bytes, keep)
    ELSE m

\* An outbound handler that drops the message of a peer without a session
HandleOutgoingMsgKnown(m, p, t) ==
    IF p \notin DOMAIN m.sessions THEN m
    ELSE FlushManaged([m EXCEPT !.wire = Append(m.wire, Sent(p, Packet("UserData")))],
                      p, t)

\* handle_outgoing_msg
HandleOutgoingMsg(m, p, t) ==
    FlushManaged([m EXCEPT !.sessions = EntryOrInsert(m.sessions, p, t),
                           !.wire = Append(m.wire, Sent(p, Packet("UserData")))],
                 p, t)

\* tick_sessions: the loop over the sessions, m with the list of dead peers
RECURSIVE TickEach(_, _, _)
TickEach(m, peers, t) ==
    IF peers = {} THEN m
    ELSE LET p == CHOOSE x \in peers : TRUE
             m1 == FlushManaged(m, p, t)
             s == m1.sessions[p]
         IN  TickEach(
                 IF s.state = "Closed"
                   THEN [m1 EXCEPT !.to_app[p] = IF s.announced
                                                   THEN Append(m1.to_app[p], CloseNotice(s))
                                                   ELSE m1.to_app[p],
                                   !.dead = m1.dead \cup {p}]
                   ELSE m1,
                 peers \ {p}, t)

\* A tick that notifies but leaves the dead sessions in the map
TickSessionsKeeping(m, t) == TickEach(m, DOMAIN m.sessions, t)

\* tick_sessions
TickSessions(m, t) ==
    LET r == TickEach(m, DOMAIN m.sessions, t) IN
    [r EXCEPT !.sessions = [p \in DOMAIN r.sessions \ r.dead |-> r.sessions[p]]]

\* The muxer is not inside a send
NoSend == [some |-> FALSE, peer |-> "", bytes |-> EmptyBytes]

\* No function has been applied
NoCall == [fn |-> "none", in |-> <<>>, out |-> <<>>]

\* The muxer's maps and channels before a step
MuxState ==
    [sessions |-> sessions, pending |-> pending, to_app |-> to_app,
     new_conns |-> new_conns, wire |-> <<>>, dead |-> {},
     accepting |-> listener_open]

MuxAssign(m) ==
    /\ sessions' = m.sessions
    /\ pending' = m.pending
    /\ to_app' = m.to_app
    /\ new_conns' = m.new_conns
    /\ wire' = m.wire

\* How far the peer's handshake packets have come, in order
HandshakeProgress(n, bytes) ==
    IF bytes.kind = "OpenConnectionRequest1"
          /\ bytes.protocol_version = RAKNET_PROTOCOL_VERSION
      THEN (IF n < 1 THEN 1 ELSE n)
    ELSE IF bytes.kind = "OpenConnectionRequest2" /\ n >= 1
      THEN (IF n < 2 THEN 2 ELSE n)
    ELSE IF bytes.kind = "Datagram" /\ bytes.packet = "ConnectionRequest" /\ n >= 2
      THEN 3
    ELSE n

NoEvent ==
    [kind |-> "none", peer |-> "", bytes |-> EmptyBytes, before |-> <<>>,
     was_pending |-> FALSE]

\* socket.recv_from returned len bytes from peer p
MuxReceive(p, bytes, keep) ==
    /\ MuxAssign(DispatchDatagram(MuxState, p, bytes, now, keep))
    /\ received' = [received EXCEPT ![p] = HandshakeProgress(received[p], bytes)]
    /\ mux_event' = [kind |-> "datagram", peer |-> p, bytes |-> bytes,
                     before |-> IF HasSession(sessions, p) /\ ~DatagramDecodes(bytes)
                                  THEN sessions ELSE <<>>,
                     was_pending |-> p \in pending]
    /\ UNCHANGED <<now, ticked, lifeVars, txVars, rxVars>>

\* outbound_rx.recv returned a message for peer p
MuxOutbound(p) ==
    /\ MuxAssign(HandleOutgoingMsg(MuxState, p, now))
    /\ mux_event' = [kind |-> "outbound", peer |-> p, bytes |-> EmptyBytes,
                     before |-> <<>>, was_pending |-> FALSE]
    /\ UNCHANGED <<now, ticked, received, lifeVars, txVars, rxVars>>

\* tick.tick() fired
MuxTick ==
    /\ MuxAssign(TickSessions(MuxState, now))
    /\ mux_event' = [kind |-> "tick", peer |-> "", bytes |-> EmptyBytes,
                     before |-> sessions, was_pending |-> FALSE]
    /\ ticked' = TRUE
    /\ UNCHANGED <<now, received, lifeVars, txVars, rxVars>>

\* The clock moves on by SESSION_STALE; the tick interval is shorter, so a
\* tick has run since the last move
MuxAdvance ==
    /\ ticked
    /\ now' = now + SESSION_STALE
    /\ ticked' = FALSE
    /\ wire' = <<>>
    /\ mux_event' = NoEvent
    /\ UNCHANGED <<sessions, pending, to_app, new_conns, received, lifeVars, txVars,
                   rxVars>>

MuxInit ==
    /\ sessions = EmptyMap
    /\ pending = {}
    /\ to_app = [p \in Peers |-> <<>>]
    /\ new_conns = <<>>
    /\ wire = <<>>
    /\ received = [p \in Peers |-> 0]
    /\ mux_event = NoEvent
    /\ listener_open = TRUE
    /\ handles_dropped = {}
    /\ muxer_running = TRUE
    /\ advertisement = DefaultAdvertisement
    /\ app_taken = [p \in Peers |-> 0]
    /\ awaiting = NoSend
    /\ call = NoCall
    /\ ticked = FALSE

(***************************************************************************)
(* Initial state of a session                                              *)
(***************************************************************************)
TxInit ==
    /\ next_reliable = 0
    /\ order_write = [c \in 0..(MAXIMUM_ORDERING_CHANNELS - 1) |-> 0]
    /\ outgoing = <<>>
    /\ panicked = FALSE
    /\ queue_log = <<>>
    /\ send_seq = 0
    /\ sent_datagrams = EmptyMap
    /\ incoming_acks = <<>>
    /\ incoming_naks = <<>>
    /\ on_ack_log = <<>>
    /\ on_nak_log = <<>>
    /\ emitted = <<>>
    /\ last_processed = NoProcessing
    /\ flushed_seqs = {}
    /\ acked_seqs = {}

RxInit ==
    /\ recv_high = MASK
    /\ pending_acks = {}
    /\ pending_nacks = {}
    /\ split_assembler = EmptyMap
    /\ reliable_seen = {}
    /\ order_read = [c \in 0..(MAXIMUM_ORDERING_CHANNELS - 1) |-> 0]
    /\ order_queue = EmptyMap
    /\ delivered = <<>>
    /\ rx_result = NoDatagram
    /\ fed = [all |-> {}, ok |-> {}]

SessionInit == now = 0 /\ TxInit /\ RxInit /\ MuxInit

(***************************************************************************)
(* SpecQueue: the application queues messages of every reliability         *)
(***************************************************************************)
QueueLens == {1, MaxLen(SessionMtu), MaxLen(SessionMtu) + 1, 5000, 8192}

QueueChannels == {0, 2, MAXIMUM_ORDERING_CHANNELS - 1, MAXIMUM_ORDERING_CHANNELS}

QueueNext ==
    \E len \in QueueLens, rel \in Reliabilities, channel \in QueueChannels :
        /\ Len(queue_log) < MaxQueued
        /\ QueuePacket(len, rel, channel)
        /\ UNCHANGED <<rxVars, muxVars>>

SpecQueue == SessionInit /\ [][QueueNext]_vars

(***************************************************************************)
(* SpecTx: a session that queues, flushes and reads ACK / NACK ranges      *)
(***************************************************************************)
TxReliabilities == {Unreliable, ReliableOrdered}

TxLens == {600}

\* Ranges a peer acknowledges: single sequences, a pair, and a range whose end
\* is before its start, which walks through the wrap
AckRanges == {SequenceRange(a, b) : a, b \in 0..1}

TxQueue ==
    \E len \in TxLens, rel \in TxReliabilities :
        /\ Len(queue_log) < MaxTxQueued
        /\ QueuePacket(len, rel, 0)
        /\ UNCHANGED <<rxVars, muxVars>>

TxAck ==
    \E r \in AckRanges :
        /\ Len(incoming_acks) + Len(incoming_naks) < MaxPendingRanges
        /\ HandleAckPayload(<<r>>)
        /\ UNCHANGED <<rxVars, muxVars>>

TxNack ==
    \E r \in AckRanges :
        /\ Len(incoming_acks) + Len(incoming_naks) < MaxPendingRanges
        /\ HandleNackPayload(<<r>>)
        /\ UNCHANGED <<rxVars, muxVars>>

TxProcess == ProcessIncomingAcksNaks /\ UNCHANGED <<rxVars, muxVars>>

TxFlush == FlushResult.seq <= MaxSendSeq /\ Flush /\ UNCHANGED muxVars

TxAdvance == AdvanceTime /\ UNCHANGED muxVars

TxNext ==
    \/ TxQueue
    \/ TxFlush
    \/ TxAck
    \/ TxNack
    \/ TxProcess
    \/ TxAdvance

SpecTx == SessionInit /\ [][TxNext]_vars

(***************************************************************************)
(* SpecAccount: a session that receives data datagrams out of order and    *)
(* flushes its acknowledgements                                            *)
(***************************************************************************)
\* Sequence numbers that may arrive next: old ones, the next one, and ones
\* that leave a gap
AccountSeqs ==
    {s \in 0..MaxRecvSeq :
        Seq24After(s, recv_high) => ((s - recv_high + MODULO) % MODULO) <= MaxAhead}

AccountReceive ==
    \E seq \in AccountSeqs :
        /\ Cardinality(pending_acks) < MaxPendingAcks
        /\ HandleDatagram(seq, <<>>)
        /\ UNCHANGED muxVars

AccountFlush == pending_acks # {} /\ Flush /\ UNCHANGED muxVars

AccountNext == AccountReceive \/ AccountFlush

SpecAccount == SessionInit /\ [][AccountNext]_vars

(***************************************************************************)
(* Claims about Session::queue_packet                                      *)
(***************************************************************************)
CeilDiv(a, b) == (a + b - 1) \div b

\* The frames the claim expects for one queued message
FragmentsAsClaimed(e) ==
    LET max == e.mtu - RAKNET_DATAGRAM_HEADER_SIZE - MAXIMUM_ENCAPSULATED_HEADER_SIZE
        n == CeilDiv(e.len, max)
        fs == e.frames
    IN  IF e.len > max
          THEN /\ Len(fs) = n
               /\ \A i \in 1..Len(fs) :
                     /\ fs[i].is_split
                     /\ fs[i].split.some
                     /\ fs[i].split.count = n
                     /\ fs[i].split.id = fs[1].split.id
                     /\ fs[i].split.index = i - 1
                     /\ fs[i].ordering_index = e.order_before[e.channel]
                     /\ fs[i].ordering_channel = e.channel
                     /\ fs[i].reliable_index = Seq24New(e.reliable_before + i - 1)
          ELSE /\ Len(fs) = 1
               /\ ~fs[1].is_split
               /\ ~fs[1].split.some

\* C4: a ReliableOrdered payload longer than mtu - 4 - 28 bytes is queued as
\* ceil(len / (mtu - 32)) frames marked split, with split.count equal to that
\* number, one common split.id, split.index 0, 1, 2, ..., the same
\* ordering_index and ordering_channel on every fragment and consecutive
\* reliable_index values; a payload that fits is queued as one non-split frame.
\* For 5000 bytes on channel 2 of a 1400-MTU session that is 4 fragments.
C4_SplitAsClaimed ==
    \A k \in 1..Len(queue_log) :
        queue_log[k].reliability = ReliableOrdered => FragmentsAsClaimed(queue_log[k])

(***************************************************************************)
(* Claims about inbound ACK / NACK ranges                                  *)
(***************************************************************************)
\* C3: once every datagram with reliable frames the session has flushed has had
\* its sequence number covered by an ACK range processed after that flush, in
\* whatever grouping and order the ranges came, the sent-datagrams map is empty.
C3_AckCoverageEmptiesMap ==
    (flushed_seqs # {} /\ flushed_seqs \subseteq acked_seqs)
        => DOMAIN sent_datagrams = {}

\* Two tracked datagrams were flushed and the step just taken acknowledged the
\* last of them
C3_Witness ==
    /\ Cardinality(flushed_seqs) >= 2
    /\ flushed_seqs \subseteq acked_seqs
    /\ on_ack_log # <<>>
    /\ DOMAIN sent_datagrams = {}

AckCovered(s) ==
    \E i \in 1..Len(last_processed.acks) : Covers(last_processed.acks[i], s)

NakCount(s) ==
    Cardinality({i \in 1..Len(last_processed.naks) : Covers(last_processed.naks[i], s)})

Occurrences(log, s) == Cardinality({i \in 1..Len(log) : log[i] = s})

Reemits(out, frames) ==
    \E i \in 1..Len(out) : out[i].kind = "data" /\ out[i].frames = frames

\* C9: processing a NACK range r gives every sequence of r that is tracked
\* next_send = now and keeps it tracked, notifies the sliding window once for
\* each such sequence and range, removes nothing and leaves the entries outside
\* r as they were; a flush in the resulting state emits the frames again.
C9_NackReschedules ==
    last_processed.naks # <<>> =>
        /\ DOMAIN sent_datagrams \subseteq DOMAIN last_processed.sent
        /\ \A s \in DOMAIN last_processed.sent :
              ~AckCovered(s) =>
                 /\ s \in DOMAIN sent_datagrams
                 /\ Occurrences(on_nak_log, s) = NakCount(s)
                 /\ IF NakCount(s) > 0
                      THEN /\ sent_datagrams[s] =
                                [last_processed.sent[s] EXCEPT !.next_send = now]
                           /\ Reemits(FlushResult.out, last_processed.sent[s].frames)
                      ELSE sent_datagrams[s] = last_processed.sent[s]

\* One of two tracked datagrams has just been NACKed before its timeout
C9_Witness ==
    \E s \in DOMAIN sent_datagrams, u \in DOMAIN sent_datagrams :
        /\ Occurrences(on_nak_log, s) = 1
        /\ sent_datagrams[s].next_send = now
        /\ sent_datagrams[s].send_time + Rto > now
        /\ Occurrences(on_nak_log, u) = 0
        /\ sent_datagrams[u].next_send = sent_datagrams[u].send_time + Rto
        /\ Reemits(FlushResult.out, sent_datagrams[s].frames)

(***************************************************************************)
(* Claims about receive accounting                                         *)
(***************************************************************************)
RangeSet(ranges) == UNION {ranges[i].start..ranges[i].end : i \in 1..Len(ranges)}

Carries(out, kind, seqs) ==
    \E i \in 1..Len(out) : out[i].kind = kind /\ RangeSet(out[i].ranges) = seqs

Frame(rel, ridx, oidx, ochan, split, m, off, len) ==
    EncapsulatedPacket(rel, split.some, BitLengthOf(len), ridx, None, oidx, ochan,
                       split, <<Chunk(m, off, len)>>)

\* Datagrams of one or two of the frames F
RxDatagrams(F) == {<<f>> : f \in F} \cup {<<f, g>> : f, g \in F}

\* The next data datagram arrives, in sequence, with frames of F
RxReceive(F) ==
    \E frames \in RxDatagrams(F) :
        /\ Seq24Next(recv_high) < MaxRxDatagrams
        /\ HandleDatagram(Seq24Next(recv_high), frames)
        /\ UNCHANGED muxVars

(***************************************************************************)
(* SpecDedupe: reliable frames replayed, next to frames that fail to       *)
(* decode                                                                  *)
(***************************************************************************)
DedupeFrames ==
    { Frame(Reliable, 0, None, None, NoSplit, UserMessage(1), 0, 10),
      Frame(Reliable, 1, None, None, NoSplit, UserMessage(2), 0, 10),
      Frame(Unreliable, None, None, None, NoSplit, UserMessage(3), 0, 10),
      Frame(Unreliable, None, None, None, NoSplit, TruncatedMessage(4), 0, 1) }

DedupeNext == RxReceive(DedupeFrames)

SpecDedupe == SessionInit /\ [][DedupeNext]_vars

Emissions(payload) ==
    Cardinality({i \in 1..Len(delivered) : delivered[i] = UserData(payload)})

\* C2: a reliable frame that the session was given one or more times, at least
\* once in a call that returned Ok, has had its packet emitted exactly once.
C2_ReliableExactlyOnce ==
    \A f \in fed.ok : IsReliable(f.reliability) => Emissions(f.payload) = 1

(***************************************************************************)
(* SpecSplit: the fragments of split messages in any order, repeated       *)
(***************************************************************************)
\* Message 1: three fragments, Reliable; message 2: two fragments, Unreliable
SplitFragments ==
    { Frame(Reliable, 5 + i, None, None, SomeSplit(3, 7, i), UserMessage(1), 10 * i, 10)
        : i \in 0..2 }
    \cup
    { Frame(Unreliable, None, None, None, SomeSplit(2, 8, i), UserMessage(2), 10 * i, 10)
        : i \in 0..1 }

SplitNext == RxReceive(SplitFragments)

SpecSplit == SessionInit /\ [][SplitNext]_vars

SplitIds == {f.split.id : f \in SplitFragments}

FragmentsOf(id) == {f \in SplitFragments : f.split.id = id}

FirstFragment(id) == CHOOSE f \in FragmentsOf(id) : f.split.index = 0

\* The bytes of the whole message: the fragment payloads in index order
OriginalPayload(id) ==
    EncodedMessage(FirstFragment(id).payload[1].msg,
                   10 * Cardinality(FragmentsOf(id)))

OrderChannels == {0, 1}

OrderLens == {600}

OrderQueue ==
    \E len \in OrderLens, channel \in OrderChannels :
        /\ Len(queue_log) < MaxOrderQueued
        /\ QueuePacket(len, ReliableOrdered, channel)
        /\ UNCHANGED <<rxVars, muxVars>>

\* Every frame the sender has queued so far may be in flight
InFlight == UNION {{queue_log[k].frames[i] : i \in 1..Len(queue_log[k].frames)}
                      : k \in 1..Len(queue_log)}

OrderReceive == RxReceive(InFlight)

OrderNext == OrderQueue \/ OrderReceive

SpecOrder == SessionInit /\ [][OrderNext]_vars

RECURSIVE SelectSeq24(_, _)
SelectSeq24(seq, keep) ==
    IF Len(seq) = 0 THEN <<>>
    ELSE (IF keep[Head(seq)] THEN <<Head(seq)>> ELSE <<>>)
            \o SelectSeq24(Tail(seq), keep)

\* The messages queued on channel ch, in queue order
QueuedOn(ch) ==
    SelectSeq24([k \in 1..Len(queue_log) |-> k],
                [k \in 1..Len(queue_log) |-> queue_log[k].channel = ch])

\* The messages handed to the application, in the order they were handed over
DeliveredMessages == [i \in 1..Len(delivered) |-> delivered[i].bytes[1].msg.n]

DeliveredOn(ch) ==
    SelectSeq24(DeliveredMessages,
                [k \in 1..Len(queue_log) |-> queue_log[k].channel = ch])

\* Message k has reached the receiver
Arrived(k) ==
    \A i \in 1..Len(queue_log[k].frames) : queue_log[k].frames[i] \in fed.all

MuxBytes ==
    { OfflineBytes("OpenConnectionRequest1", RAKNET_PROTOCOL_VERSION),
      OfflineBytes("OpenConnectionRequest1", RAKNET_PROTOCOL_VERSION - 1),
      OfflineBytes("OpenConnectionRequest2", 0),
      DatagramBytes("ConnectionRequest"),
      DatagramBytes("NewIncomingConnection"),
      DatagramBytes("UserData"),
      DatagramBytes("DisconnectionNotification"),
      EmptyBytes }

\* The second peer only goes through the handshake and closes
QuietBytes ==
    { OfflineBytes("OpenConnectionRequest1", RAKNET_PROTOCOL_VERSION),
      OfflineBytes("OpenConnectionRequest2", 0),
      DatagramBytes("ConnectionRequest") }

PeerBytes(p) == IF p = "p1" THEN MuxBytes ELSE QuietBytes

\* What the offline handler may do with a pending entry on a version mismatch
KeepChoices(bytes) ==
    IF bytes.kind = "OpenConnectionRequest1"
          /\ bytes.protocol_version # RAKNET_PROTOCOL_VERSION
      THEN BOOLEAN ELSE {TRUE}

\* Peers the application holds a connection handle for
Handles == {new_conns[i] : i \in 1..Len(new_conns)}

MuxRecv ==
    \E p \in Peers : \E bytes \in PeerBytes(p) : \E keep \in KeepChoices(bytes) :
        /\ now < MaxClockSteps * SESSION_STALE
        /\ bytes.packet = "UserData" => Len(to_app[p]) < MaxInbox
        /\ bytes.packet = "ConnectionRequest" => Len(new_conns) < MaxAnnounced
        /\ MuxReceive(p, bytes, keep)

MuxSend ==
    \E p \in Handles :
        /\ now < MaxClockSteps * SESSION_STALE
        /\ MuxOutbound(p)

MuxClock ==
    /\ now < MaxClockSteps * SESSION_STALE
    /\ MuxAdvance

MuxNext == MuxRecv \/ MuxSend \/ MuxTick \/ MuxClock

SpecMux == SessionInit /\ [][MuxNext]_vars

(***************************************************************************)
(* Claims about the handshake and the idle timers                          *)
(***************************************************************************)
SentTo(p, id) == \E i \in 1..Len(wire) : wire[i].to = p /\ wire[i].pkt.id = id

VersionMismatchHandled ==
    /\ mux_event.kind = "datagram"
    /\ mux_event.bytes.kind = "OpenConnectionRequest1"
    /\ mux_event.bytes.protocol_version # RAKNET_PROTOCOL_VERSION

MismatchAnswered ==
    /\ wire = <<Sent(mux_event.peer,
                     IncompatibleProtocolVersion(RAKNET_PROTOCOL_VERSION, ServerGuid))>>
    /\ mux_event.peer \notin DOMAIN sessions

\* C7 as stated: after OpenConnectionRequest1 with a protocol version other
\* than 11 the listener has replied IncompatibleProtocolVersion with protocol 11
\* and the server GUID, and the peer has neither a session nor a pending entry.
C7_NoSessionNoPending ==
    VersionMismatchHandled => (MismatchAnswered /\ mux_event.peer \notin pending)

\* C8: a tick that finds a session 10 s or more without activity evicts it, and
\* if it was announced its application has Disconnected(TimedOut) as the last
\* item; a tick that finds a Connected session 5 s or more (and less than 10 s)
\* without activity keeps it and a ConnectedPing has gone out to it; a tick
\* that finds a Connected session less than 5 s idle sends it nothing.
C8_IdleTimers ==
    mux_event.kind = "tick" =>
        \A p \in DOMAIN mux_event.before :
            LET b == mux_event.before[p]
                idle == now - b.last_activity
            IN  /\ idle >= SESSION_TIMEOUT =>
                      /\ p \notin DOMAIN sessions
                      /\ b.announced =>
                            /\ to_app[p] # <<>>
                            /\ to_app[p][Len(to_app[p])] = Disconnected("TimedOut")
                /\ (b.state = "Connected" /\ idle >= SESSION_STALE
                        /\ idle < SESSION_TIMEOUT) =>
                      /\ p \in DOMAIN sessions
                      /\ sessions[p].state = "Connected"
                      /\ sessions[p].pinged
                      /\ ~b.pinged => SentTo(p, "ConnectedPing")
                /\ (b.state = "Connected" /\ idle < SESSION_STALE) =>
                      /\ p \in DOMAIN sessions
                      /\ sessions[p] = b
                      /\ ~SentTo(p, "ConnectedPing")

\* An announced Connected session that had been pinged was found 10 s idle
C8_Witness ==
    /\ mux_event.kind = "tick"
    /\ \E p \in DOMAIN mux_event.before :
          /\ mux_event.before[p].state = "Connected"
          /\ mux_event.before[p].announced
          /\ mux_event.before[p].pinged
          /\ now - mux_event.before[p].last_activity >= SESSION_TIMEOUT
          /\ p \notin DOMAIN sessions
          /\ to_app[p][Len(to_app[p])] = Disconnected("TimedOut")

\* C13: when bytes that do not decode as a datagram arrive from a peer that
\* has a session, that session is gone afterwards and the offline handler has
\* handled the same bytes (its reply is on the wire; the only session the peer
\* can have is the fresh one the offline handler made for
\* OpenConnectionRequest2); the sessions of the other peers are as before.
C13_DecodeFailureDropsSession ==
    (mux_event.kind = "datagram" /\ mux_event.peer \in DOMAIN mux_event.before) =>
        LET p == mux_event.peer
            b == mux_event.bytes
            restart == b.kind = "OpenConnectionRequest2" /\ mux_event.was_pending
        IN  /\ IF restart
                 THEN /\ p \in DOMAIN sessions
                      /\ sessions[p] = NewSessionState(now)
                      /\ wire = <<Sent(p, Packet("OpenConnectionReply2"))>>
                      /\ p \notin pending
                 ELSE p \notin DOMAIN sessions
            /\ (b.kind = "OpenConnectionRequest1"
                    /\ b.protocol_version = RAKNET_PROTOCOL_VERSION) =>
                  /\ p \in pending
                  /\ wire = <<Sent(p, Packet("OpenConnectionReply1"))>>
            /\ (b.kind = "OpenConnectionRequest1"
                    /\ b.protocol_version # RAKNET_PROTOCOL_VERSION) =>
                  wire = <<Sent(p, IncompatibleProtocolVersion(RAKNET_PROTOCOL_VERSION,
                                                               ServerGuid))>>
            /\ \A q \in Peers \ {p} :
                  /\ q \in DOMAIN sessions <=> q \in DOMAIN mux_event.before
                  /\ q \in DOMAIN sessions => sessions[q] = mux_event.before[q]

\* A Connected peer has sent OpenConnectionRequest1 while another peer has a
\* session
C13_Witness ==
    /\ mux_event.kind = "datagram"
    /\ mux_event.peer \in DOMAIN mux_event.before
    /\ mux_event.before[mux_event.peer].state = "Connected"
    /\ mux_event.bytes.kind = "OpenConnectionRequest1"
    /\ mux_event.peer \notin DOMAIN sessions
    /\ \E q \in DOMAIN sessions : q # mux_event.peer

\* The sessions a tick finds Closed once it has flushed them
ObservedClosed(b) ==
    {p \in DOMAIN b : b[p].state = "Closed" \/ now - b[p].last_activity >= SESSION_TIMEOUT}

\* The disconnect reason such a session has recorded
RecordedReason(s) == IF s.state = "Closed" THEN s.reason ELSE "TimedOut"

\* The last item on the session's inbound channel is the notice of its end
Notified(p, s) ==
    /\ to_app[p] # <<>>
    /\ to_app[p][Len(to_app[p])] =
          IF RecordedReason(s) # "None"
            THEN [item |-> "Disconnected", reason |-> RecordedReason(s)]
            ELSE [item |-> "ConnectionClosed", reason |-> "None"]

\* C14 as stated: after a tick no session in the map is Closed; every session
\* the tick found Closed is evicted and its application has been sent
\* Disconnected(reason), or ConnectionClosed if no reason was recorded.
C14_ClosedEvictedAndNotified ==
    mux_event.kind = "tick" =>
        /\ \A p \in DOMAIN sessions : sessions[p].state # "Closed"
        /\ \A p \in ObservedClosed(mux_event.before) :
              /\ p \notin DOMAIN sessions
              /\ Notified(p, mux_event.before[p])

\* C14, amended: after a tick no session in the map is Closed; every session
\* the tick found Closed is evicted, and if it was announced its application
\* has been sent Disconnected(reason), or ConnectionClosed if no reason was
\* recorded.
C14_ClosedEvictedAmended ==
    mux_event.kind = "tick" =>
        /\ \A p \in DOMAIN sessions : sessions[p].state # "Closed"
        /\ \A p \in ObservedClosed(mux_event.before) :
              /\ p \notin DOMAIN sessions
              /\ mux_event.before[p].announced => Notified(p, mux_event.before[p])

\* A tick found an announced session that an outbound flush had closed and a
\* session still in its handshake that had timed out
C14_Witness ==
    /\ mux_event.kind = "tick"
    /\ \E p \in DOMAIN mux_event.before :
          /\ mux_event.before[p].state = "Closed"
          /\ mux_event.before[p].announced
          /\ p \notin DOMAIN sessions
          /\ Notified(p, mux_event.before[p])
    /\ \E q \in ObservedClosed(mux_event.before) :
          /\ ~mux_event.before[q].announced
          /\ q \notin DOMAIN sessions

(***************************************************************************)
(* SpecLife: the muxer loop with the application dropping its handles and  *)
(* the socket failing; the clock has no bound                              *)
(***************************************************************************)
\* The application drops the RaknetListener: the receiver of new_conn_tx and
\* the listener's clone of outbound_tx go
DropListener ==
    /\ listener_open
    /\ listener_open' = FALSE
    /\ wire' = <<>>
    /\ mux_event' = NoEvent
    /\ UNCHANGED <<now, sessions, pending, to_app, new_conns, received, ticked,
                   handles_dropped, muxer_running, advertisement, chanVars, call, txVars,
                   rxVars>>

\* The application drops the connection handle of peer p: its receiver of the
\* session's to_app channel and its clone of outbound_tx go
DropHandle(p) ==
    /\ p \in Handles \ handles_dropped
    /\ handles_dropped' = handles_dropped \cup {p}
    /\ wire' = <<>>
    /\ mux_event' = NoEvent
    /\ UNCHANGED <<now, sessions, pending, to_app, new_conns, received, ticked,
                   listener_open, muxer_running, advertisement, chanVars, call, txVars,
                   rxVars>>

\* socket.recv_from returned Err: both arms of the match end in `continue`
MuxSocketError ==
    /\ muxer_running
    /\ wire' = <<>>
    /\ mux_event' = [kind |-> "socket_error", peer |-> "", bytes |-> EmptyBytes,
                     before |-> <<>>, was_pending |-> FALSE]
    /\ UNCHANGED <<now, sessions, pending, to_app, new_conns, received, ticked,
                   lifeVars, txVars, rxVars>>

\* Instants SESSION_STALE further back; the sessions read only now - instant,
\* and every instant SESSION_TIMEOUT or more back reads alike
Elapsed(sess) ==
    [p \in DOMAIN sess |->
        [sess[p] EXCEPT !.last_activity =
            IF @ - SESSION_STALE < now - SESSION_TIMEOUT
              THEN now - SESSION_TIMEOUT ELSE @ - SESSION_STALE]]

\* SESSION_STALE passes, written as the instants of the sessions moving back;
\* the tick interval is shorter, so a tick has run since the last move
MuxElapse ==
    /\ ticked
    /\ sessions' = Elapsed(sessions)
    /\ ticked' = FALSE
    /\ wire' = <<>>
    /\ mux_event' = NoEvent
    /\ UNCHANGED <<now, pending, to_app, new_conns, received, lifeVars, txVars, rxVars>>

\* The handshake and a packet that only shows the peer is alive
LifeBytes ==
    { OfflineBytes("OpenConnectionRequest1", RAKNET_PROTOCOL_VERSION),
      OfflineBytes("OpenConnectionRequest2", 0),
      DatagramBytes("ConnectionRequest"),
      DatagramBytes("NewIncomingConnection") }

LifeRecv ==
    \E p \in Peers : \E bytes \in (IF p = "p1" THEN LifeBytes ELSE QuietBytes) :
        /\ muxer_running
        /\ bytes.packet = "ConnectionRequest" =>
              \/ Len(new_conns) < MaxAnnounced
              \/ ~listener_open
              \/ (p \in DOMAIN sessions /\ sessions[p].announced)
        /\ MuxReceive(p, bytes, TRUE)

LifeSend ==
    \E p \in Handles \ handles_dropped :
        /\ muxer_running
        /\ MuxOutbound(p)

LifeTick == muxer_running /\ MuxTick

LifeDrop == \E p \in Peers : DropHandle(p)

LifeNext ==
    \/ LifeRecv
    \/ LifeSend
    \/ LifeTick
    \/ MuxElapse
    \/ MuxSocketError
    \/ DropListener
    \/ LifeDrop

\* The tick interval fires for as long as the loop runs, and time passes
SpecLife ==
    SessionInit /\ [][LifeNext]_vars /\ WF_vars(LifeTick) /\ WF_vars(MuxElapse)

\* C11: once the listener's accept handle is dropped, or the socket has
\* failed, the muxer eventually leaves its loop.
C11_MuxerStops ==
    (~listener_open \/ mux_event.kind = "socket_error") ~> ~muxer_running

\* C12: once the application has dropped the connection handle of a peer, that
\* peer's session eventually is no longer Connected.
C12_HandleDropEndsSession ==
    \A p \in Peers :
        (p \in handles_dropped)
            ~> ~(p \in DOMAIN sessions /\ sessions[p].state = "Connected")

\* What a step may do to the announcements
AnnounceStep ==
    /\ \/ new_conns' = new_conns
       \/ \E p \in Peers :
            /\ new_conns' = Append(new_conns, p)
            /\ p \in DOMAIN sessions'
            /\ sessions'[p].state = "Connected"
            /\ sessions'[p].announced
            /\ p \in DOMAIN sessions =>
                  (~sessions[p].announced /\ sessions[p].pending_rx)
    /\ \A p \in DOMAIN sessions' :
          /\ sessions'[p].announced => ~sessions'[p].pending_rx
          /\ (sessions'[p].announced
                 /\ ~(p \in DOMAIN sessions /\ sessions[p].announced))
                => new_conns' = Append(new_conns, p)

\* C15: a step hands a session's receiver to the new-connections channel only
\* if the session is Connected, was not announced and still held its pending
\* receiver; a session becomes announced only by such a step; and announced
\* implies that the pending receiver has been taken.
C15_AnnouncedOnce == [][AnnounceStep]_vars

\* An announced session has just been given a ConnectionRequest again and its
\* peer is still in the new-connections history once, while another session
\* has connected after the listener was dropped and is not announced
C15_Witness ==
    /\ mux_event.kind = "datagram"
    /\ mux_event.bytes = DatagramBytes("ConnectionRequest")
    /\ wire = <<>>
    /\ mux_event.peer \in DOMAIN sessions
    /\ sessions[mux_event.peer].announced
    /\ Cardinality({i \in 1..Len(new_conns) : new_conns[i] = mux_event.peer}) = 1
    /\ \E q \in DOMAIN sessions :
          /\ sessions[q].state = "Connected"
          /\ ~sessions[q].announced
          /\ ~sessions[q].pending_rx

(***************************************************************************)
(* SpecBytes: one application buffer from RaknetConnection::send to the    *)
(* item the receiving muxer hands to its application                       *)
(***************************************************************************)
\* Everything but the function call stays as it is
OnlyCall == UNCHANGED <<now, txVars, rxVars, sessions, pending, to_app, new_conns, wire,
                        received, mux_event, ticked, listener_open, handles_dropped,
                        muxer_running, advertisement, chanVars>>

\* Buffer k of n bytes; its first byte is an ID of 0x80 or more
AppBuffer(k, n) == EncodedMessage(UserMessage(k), n)

\* No packet: send returned early, or decode returned an error
NoPacket == [some |-> FALSE, id |-> <<>>, payload |-> <<>>]

\* RaknetPacket::UserData { id, payload }
UserDataPacket(id, payload) == [some |-> TRUE, id |-> id, payload |-> payload]

\* RaknetConnection::send: nothing for an empty buffer, else UserData { id, body }
ConnectionSend(buf) ==
    IF PayloadLen(buf) = 0 THEN NoPacket
    ELSE UserDataPacket(TakeBytes(buf, 1), DropBytes(buf, 1))

\* RaknetPacket::encode of UserData: put_u8(id), put_slice(payload)
PacketEncode(pkt) == Concat(pkt.id, pkt.payload)

\* The frame queue_packet builds for the encoded packet (Message::new:
\* ReliableOrdered, channel 0)
QueuedFrame(bytes) ==
    [QueuePacketFrames(bytes[1].msg, PayloadLen(bytes), ReliableOrdered, 0,
                       Seq24New(0),
                       [c \in 0..(MAXIMUM_ORDERING_CHANNELS - 1) |-> Seq24New(0)])[1]
        EXCEPT !.payload = bytes]

\* let mut buf = vec![0u8; mtu + UDP_HEADER_SIZE + 64]: recv_from fills at most
\* this many bytes of a datagram
RecvLimit(mtu) == mtu + UDP_HEADER_SIZE + 64

\* len of Ok((len, peer)) for a datagram of size bytes
RecvLen(size, mtu) == IF size < RecvLimit(mtu) THEN size ELSE RecvLimit(mtu)

\* Datagram::decode of the received bytes of a datagram that carries frame f:
\* the set of frame lists it may return, {} standing for an error.  Bytes left
\* after the frame are payload bytes read as further frames, which fails or
\* gives frames of no meaning.
DatagramDecode(f, got) ==
    LET head == RAKNET_DATAGRAM_HEADER_SIZE + FrameSize(f) - PayloadLen(f.payload)
        plen == FramePayloadLen(f)
        first == [f EXCEPT !.payload = TakeBytes(f.payload, plen)]
    IN  IF got < head + plen THEN {<<>>}
        ELSE IF got = head + plen THEN {<<first>>}
        ELSE {<<>>, <<first>>}

\* RaknetPacket::decode of a payload whose ID is 0x80 or more
PacketDecode(p) ==
    IF PayloadLen(p) = 0 THEN NoPacket
    ELSE UserDataPacket(TakeBytes(p, 1), DropBytes(p, 1))

\* handle_incoming_udp: buf.put_u8(id); buf.extend_from_slice(&payload)
DeliveredBytes(pkt) == Concat(pkt.id, pkt.payload)

\* What the receiving application may get for the frames of one datagram
AppItems(frames) ==
    IF frames = <<>> \/ ~PacketDecode(frames[1].payload).some THEN <<>>
    ELSE <<DeliveredBytes(PacketDecode(frames[1].payload))>>

\* The items the receiving application may get for buffer buf
SendRecv(buf, mtu) ==
    IF ~ConnectionSend(buf).some THEN {<<>>}
    ELSE LET f == QueuedFrame(PacketEncode(ConnectionSend(buf)))
             got == RecvLen(RAKNET_DATAGRAM_HEADER_SIZE + FrameSize(f), mtu)
         IN  {AppItems(frames) : frames \in DatagramDecode(f, got)}

BufferIds == 1..2

BufferLens == (0..3) \cup (1430..1480) \cup {8191, 8192, 8193}

BytesNext ==
    \E k \in BufferIds, n \in BufferLens :
        \E items \in SendRecv(AppBuffer(k, n), SessionMtu) :
            /\ call' = [fn |-> "send_recv", in |-> AppBuffer(k, n), out |-> items]
            /\ OnlyCall

SpecBytes == SessionInit /\ [][BytesNext]_vars

\* C16: for every non-empty buffer that starts with an ID of 0x80 or more, the
\* receiving application gets one item, and its bytes are the bytes passed to
\* send.
C16_SendRecvSameBytes ==
    (call.fn = "send_recv" /\ PayloadLen(call.in) > 0) => call.out = <<call.in>>

(***************************************************************************)
(* SpecSeq24: Sequence24 arithmetic and ordering on values around 0, HALF  *)
(* and MASK.  The subtraction in cmp is a u32 subtraction: a build with    *)
(* overflow checks panics when it underflows, a build without wraps.       *)
(***************************************************************************)
SeqSpread == 2

SeqSamples ==
    (0..SeqSpread) \cup ((HALF - SeqSpread)..(HALF + SeqSpread)) \cup ((MASK - SeqSpread)..MASK)

Builds == {"overflow_checks", "wrapping"}

\* (a - b) as i32 for u32 a and b below 2^24: the difference wraps to
\* a - b + 2^32 when a < b, and the cast to i32 takes 2^32 off again
SubAsI32(a, b, build) ==
    IF a >= b THEN [ok |-> TRUE, v |-> a - b]
    ELSE IF build = "overflow_checks" THEN [ok |-> FALSE, v |-> 0]
    ELSE [ok |-> TRUE, v |-> a - b]

\* Sequence24::value
Seq24Value(x) == x % MODULO

\* impl Ord for Sequence24: self.cmp(other)
Seq24Cmp(self, other, build) ==
    LET sub == SubAsI32(Seq24Value(other), Seq24Value(self), build)
        d0  == sub.v
        d   == IF d0 > HALF THEN d0 - MODULO
               ELSE IF d0 < -HALF THEN d0 + MODULO
               ELSE d0
    IN  IF ~sub.ok THEN "panic"
        ELSE IF d < 0 THEN "Less"
        ELSE IF d = 0 THEN "Equal"
        ELSE "Greater"

\* PartialOrd::gt through partial_cmp: self > other
Seq24Gt(self, other, build) ==
    LET o == Seq24Cmp(self, other, build)
    IN  IF o = "panic" THEN "panic" ELSE IF o = "Greater" THEN "true" ELSE "false"

\* x.next(), x.prev(), x.prev().next(), x.next().prev()
SeqStep ==
    \E x \in SeqSamples :
        /\ call' = [fn  |-> "next_prev",
                    in  |-> <<x>>,
                    out |-> <<Seq24Next(x), Seq24Prev(x),
                              Seq24Next(Seq24Prev(x)), Seq24Prev(Seq24Next(x))>>]
        /\ OnlyCall

\* a.cmp(b), b.cmp(a), b > a
SeqCompare ==
    \E a \in SeqSamples, b \in SeqSamples, build \in Builds :
        /\ call' = [fn  |-> "cmp",
                    in  |-> <<a, b>>,
                    out |-> <<Seq24Cmp(a, b, build), Seq24Cmp(b, a, build),
                              Seq24Gt(b, a, build)>>]
        /\ OnlyCall

Seq24Next_ == SeqStep \/ SeqCompare

SpecSeq24 == SessionInit /\ [][Seq24Next_]_vars

\* C17: for all 24-bit a and b, b > a holds exactly when (b - a) mod 2^24 lies
\* strictly between 0 and 2^23; in particular the successor of 2^24 - 1 is
\* greater than 2^24 - 1.
C17_HalfSpaceOrder ==
    call.fn = "cmp" =>
        LET a == call.in[1]
            b == call.in[2]
            d == (b - a + MODULO) % MODULO
        IN  /\ call.out[3] = (IF d > 0 /\ d < HALF THEN "true" ELSE "false")
            /\ (a = MASK /\ b = Seq24Next(a)) => call.out[3] = "true"

\* C18: next and prev are inverse to each other, their results are in
\* [0, 2^24), and the next of 2^24 - 1 is 0.
C18_NextPrevInverse ==
    call.fn = "next_prev" =>
        LET x == call.in[1]
        IN  /\ call.out[3] = x
            /\ call.out[4] = x
            /\ call.out[1] \in 0..MASK
            /\ call.out[2] \in 0..MASK
            /\ x = MASK => call.out[1] = 0

C18_Witness ==
    /\ call.fn = "next_prev"
    /\ call.in = <<MASK>>
    /\ call.out = <<0, MASK - 1, MASK, MASK>>

Reversed(o) == IF o = "Less" THEN "Greater" ELSE IF o = "Greater" THEN "Less" ELSE o

\* C19: cmp(x, y) is the reverse of cmp(y, x), it is Equal exactly when
\* x = y, and evaluating it fails for no pair of sequence numbers.
C19_CmpAntisymmetric ==
    call.fn = "cmp" =>
        /\ call.out[1] # "panic"
        /\ call.out[2] # "panic"
        /\ call.out[1] = Reversed(call.out[2])
        /\ (call.out[1] = "Equal") <=> (call.in[1] = call.in[2])

(***************************************************************************)
(* SpecCodec: encode_body and decode_body of the control packets, on       *)
(* bytes.  A buffer is a sequence of bytes; a decoder returns its value    *)
(* and the bytes it left, or an error.                                     *)
(***************************************************************************)
TakeN(bs, n) == SubSeq(bs, 1, n)

DropN(bs, n) == SubSeq(bs, n + 1, Len(bs))

DecOk(v, rest) == [ok |-> TRUE, v |-> v, rest |-> rest]

DecErr(e) == [ok |-> FALSE, v |-> e, rest |-> <<>>]

\* put_u16 / put_u32 / put_u64: v on n bytes, big-endian
RECURSIVE BeBytes(_, _)
BeBytes(v, n) == IF n = 0 THEN <<>> ELSE Append(BeBytes(v \div 256, n - 1), v % 256)

\* get_u16 / get_u32 / get_u64
RECURSIVE BeValue(_)
BeValue(bs) ==
    IF bs = <<>> THEN 0
    ELSE BeValue(TakeN(bs, Len(bs) - 1)) * 256 + bs[Len(bs)]

\* impl_raknet_int!: decode_raknet
DecodeInt(bs, n) ==
    IF Len(bs) < n THEN DecErr("UnexpectedEof")
    ELSE DecOk(BeValue(TakeN(bs, n)), DropN(bs, n))

\* !ip_bytes[i]
FlipByte(b) == 255 - b

V4(ip, port) == [v |-> 4, ip |-> ip, port |-> port, flowinfo |-> 0, scope_id |-> 0]

V6(ip, port, flowinfo, scope_id) ==
    [v |-> 6, ip |-> ip, port |-> port, flowinfo |-> flowinfo, scope_id |-> scope_id]

\* impl RaknetEncodable for SocketAddr: encode_raknet
EncodeAddr(a) ==
    IF a.v = 4
    THEN <<4>> \o [i \in 1..4 |-> FlipByte(a.ip[i])] \o BeBytes(a.port, 2)
    ELSE <<6>> \o <<23, 0>> \o BeBytes(a.port, 2) \o BeBytes(a.flowinfo, 4)
              \o a.ip \o BeBytes(a.scope_id, 4)

\* impl RaknetEncodable for SocketAddr: decode_raknet
DecodeAddr(bs) ==
    IF Len(bs) < 1 THEN DecErr("UnexpectedEof")
    ELSE LET version == bs[1]
             r       == Tail(bs)
         IN  IF version = 4
             THEN IF Len(r) < 4 + 2 THEN DecErr("UnexpectedEof")
                  ELSE DecOk(V4([i \in 1..4 |-> FlipByte(r[i])], BeValue(SubSeq(r, 5, 6))),
                             DropN(r, 6))
             ELSE IF version = 6
             THEN IF Len(r) < 2 + 2 + 4 + 16 + 4 THEN DecErr("UnexpectedEof")
                  ELSE DecOk(V6(SubSeq(r, 9, 24), BeValue(SubSeq(r, 3, 4)),
                                BeValue(SubSeq(r, 5, 8)), BeValue(SubSeq(r, 25, 28))),
                             DropN(r, 28))
             ELSE DecErr("InvalidAddrVersion")

NoBytes == [some |-> FALSE, bytes |-> <<>>]

SomeBytes(bs) == [some |-> TRUE, bytes |-> bs]

\* An encoder that writes the length prefix whatever the value
EncodeAdvertisementPrefixed(ad) == BeBytes(Len(ad.bytes), 2) \o ad.bytes

\* impl RaknetEncodable for Advertisement: encode_raknet
EncodeAdvertisement(ad) ==
    IF ad.some /\ ad.bytes # <<>>
    THEN BeBytes(Len(ad.bytes), 2) \o ad.bytes
    ELSE <<>>

\* impl RaknetEncodable for Advertisement: decode_raknet
DecodeAdvertisement(bs) ==
    IF bs # <<>>
    THEN IF Len(bs) < 2 THEN DecErr("UnexpectedEof")
         ELSE LET len == BeValue(TakeN(bs, 2))
                  r   == DropN(bs, 2)
              IN  IF Len(r) < len THEN DecErr("UnexpectedEof")
                  ELSE DecOk(SomeBytes(TakeN(r, len)), DropN(r, len))
    ELSE DecOk(NoBytes, bs)

\* A u64 or i64 as its 64 bits, least significant first; n < 2^31
Bits64(n) == [i \in 1..64 |-> IF i <= 31 THEN (n \div (2 ^ (i - 1))) % 2 ELSE 0]

\* v >> 7 on u64
Shr7(b) == [i \in 1..64 |-> IF i + 7 <= 64 THEN b[i + 7] ELSE 0]

\* (v & 0x7f) as u8
Low7(b) == b[1] + 2 * b[2] + 4 * b[3] + 8 * b[4] + 16 * b[5] + 32 * b[6] + 64 * b[7]

\* impl RaknetEncodable for VarUInt: encode_raknet
RECURSIVE EncodeVarUInt(_)
EncodeVarUInt(b) ==
    IF \E i \in 8..64 : b[i] = 1
    THEN <<Low7(b) + 128>> \o EncodeVarUInt(Shr7(b))
    ELSE <<Low7(b)>>

\* impl RaknetEncodable for VarUInt: decode_raknet, the loop from (result, shift)
RECURSIVE VarUIntLoop(_, _, _)
VarUIntLoop(bs, result, shift) ==
    IF shift >= 64 THEN DecErr("VarIntExceedsLimit")
    ELSE IF bs = <<>> THEN DecErr("UnexpectedEof")
    ELSE LET v    == bs[1]
             low  == Bits64(v % 128)
             next == [i \in 1..64 |->
                         IF i > shift /\ i - shift <= 7 /\ low[i - shift] = 1 THEN 1
                         ELSE result[i]]
         IN  IF v < 128 THEN DecOk(next, Tail(bs))
             ELSE VarUIntLoop(Tail(bs), next, shift + 7)

\* impl RaknetEncodable for VarInt: ((x << 1) ^ (x >> 63)) as u64
ZigZag(x) == [i \in 1..64 |-> ((IF i = 1 THEN 0 ELSE x[i - 1]) + x[64]) % 2]

\* impl RaknetEncodable for VarInt: ((ux >> 1) as i64) ^ (-((ux & 1) as i64))
UnZigZag(ux) == [i \in 1..64 |-> ((IF i = 64 THEN 0 ELSE ux[i + 1]) + ux[1]) % 2]

\* put_u16_le and the three put_u8 of U24LE: v on n bytes, little-endian
RECURSIVE LeBytes(_, _)
LeBytes(v, n) == IF n = 0 THEN <<>> ELSE <<v % 256>> \o LeBytes(v \div 256, n - 1)

\* A little-endian read that takes the first byte as the most significant
LeValueSwapped(bs) == BeValue(bs)

\* get_u16_le and b0 | (b1 << 8) | (b2 << 16)
RECURSIVE LeValue(_)
LeValue(bs) == IF bs = <<>> THEN 0 ELSE bs[1] + 256 * LeValue(Tail(bs))

\* encode_raknet of a field of type t
EncodeField(t, v) ==
    CASE t = "u8"      -> <<v>>
      [] t = "u16"     -> BeBytes(v, 2)
      [] t = "u32"     -> BeBytes(v, 4)
      [] t = "u64"     -> BeBytes(v, 8)
      [] t = "time"    -> BeBytes(v, 8)
      [] t = "bool"    -> <<IF v THEN 1 ELSE 0>>
      [] t = "magic"   -> v
      [] t = "padding" -> [i \in 1..v |-> 0]
      [] t = "advert"  -> EncodeAdvertisement(v)
      [] t = "addr"    -> EncodeAddr(v)
      [] t = "i8"      -> <<(v + 256) % 256>>
      [] t = "u16le"   -> LeBytes(v, 2)
      [] t = "u24le"   -> LeBytes(v, 3)
      [] t = "varuint" -> EncodeVarUInt(v)
      [] t = "varint"  -> EncodeVarUInt(ZigZag(v))

\* decode_raknet of a field of type t
DecodeField(t, bs) ==
    CASE t = "u8"      -> DecodeInt(bs, 1)
      [] t = "u16"     -> DecodeInt(bs, 2)
      [] t = "u32"     -> DecodeInt(bs, 4)
      [] t = "u64"     -> DecodeInt(bs, 8)
      [] t = "time"    -> DecodeInt(bs, 8)
      [] t = "bool"    -> IF bs = <<>> THEN DecErr("UnexpectedEof")
                          ELSE DecOk(bs[1] = 1, Tail(bs))
      [] t = "magic"   -> IF Len(bs) < 16 THEN DecErr("UnexpectedEof")
                          ELSE DecOk(TakeN(bs, 16), DropN(bs, 16))
      [] t = "padding" -> DecOk(Len(bs), <<>>)
      [] t = "advert"  -> DecodeAdvertisement(bs)
      [] t = "addr"    -> DecodeAddr(bs)
      [] t = "i8"      -> IF bs = <<>> THEN DecErr("UnexpectedEof")
                          ELSE DecOk(IF bs[1] >= 128 THEN bs[1] - 256 ELSE bs[1], Tail(bs))
      [] t = "u16le"   -> IF Len(bs) < 2 THEN DecErr("UnexpectedEof")
                          ELSE DecOk(LeValue(TakeN(bs, 2)), DropN(bs, 2))
      [] t = "u24le"   -> IF Len(bs) < 3 THEN DecErr("UnexpectedEof")
                          ELSE DecOk(LeValue(TakeN(bs, 3)), DropN(bs, 3))
      [] t = "varuint" -> VarUIntLoop(bs, Bits64(0), 0)
      [] t = "varint"  -> LET r == VarUIntLoop(bs, Bits64(0), 0)
                          IN  IF r.ok THEN DecOk(UnZigZag(r.v), r.rest) ELSE r

\* a run of encode_raknet calls
RECURSIVE EncodeFields(_, _)
EncodeFields(ts, vs) ==
    IF ts = <<>> THEN <<>>
    ELSE EncodeField(Head(ts), Head(vs)) \o EncodeFields(Tail(ts), Tail(vs))

\* a run of decode_raknet(src)? calls: the first error ends it
RECURSIVE DecodeFields(_, _)
DecodeFields(ts, bs) ==
    IF ts = <<>> THEN DecOk(<<>>, bs)
    ELSE LET r == DecodeField(Head(ts), bs)
         IN  IF ~r.ok THEN r
             ELSE LET more == DecodeFields(Tail(ts), r.rest)
                  IN  IF ~more.ok THEN more
                      ELSE DecOk(<<r.v>> \o more.v, more.rest)

NoCookie == [some |-> FALSE, v |-> 0]

SomeCookie(c) == [some |-> TRUE, v |-> c]

TenAddrs == [i \in 1..10 |-> "addr"]

\* The fields of a control packet whose body is a plain run of fields
BodyFields(kind) ==
    CASE kind = "UnconnectedPing"             -> <<"time", "magic">>
      [] kind = "UnconnectedPong"             -> <<"time", "u64", "magic", "advert">>
      [] kind = "OpenConnectionRequest1"      -> <<"magic", "u8", "padding">>
      [] kind = "OpenConnectionReply2"        -> <<"magic", "u64", "addr", "u16", "bool">>
      [] kind = "IncompatibleProtocolVersion" -> <<"u8", "magic", "u64">>
      [] kind = "AlreadyConnected"            -> <<"magic", "u64">>
      [] kind = "ConnectionRequest"           -> <<"u64", "time", "bool">>
      [] kind = "ConnectionRequestAccepted"   -> <<"addr", "u16">> \o TenAddrs \o <<"time", "time">>
      [] kind = "ConnectionRequestFailed"     -> <<"magic", "u64">>
      [] kind = "NewIncomingConnection"       -> <<"addr">> \o TenAddrs \o <<"time", "time">>

\* A packet body: its kind and its fields in declaration order
Body(kind, fields) == [kind |-> kind, fields |-> fields]

BodyErr(e) == [kind |-> "Err", fields |-> <<e>>]

\* OpenConnectionReply1::encode_body; fields are <<magic, server_guide, cookie, mtu>>
EncodeReply1(f) ==
    f[1] \o BeBytes(f[2], 8) \o <<IF f[3].some THEN 1 ELSE 0>>
         \o (IF f[3].some THEN BeBytes(f[3].v, 4) ELSE <<>>) \o BeBytes(f[4], 2)

\* OpenConnectionReply1::decode_body
DecodeReply1(bs) ==
    LET head == DecodeFields(<<"magic", "u64", "u8">>, bs)
    IN  IF ~head.ok THEN BodyErr(head.v)
        ELSE LET cookie == IF head.v[3] # 0 THEN DecodeInt(head.rest, 4)
                           ELSE DecOk(0, head.rest)
             IN  IF ~cookie.ok THEN BodyErr(cookie.v)
                 ELSE LET mtu == DecodeInt(cookie.rest, 2)
                      IN  IF ~mtu.ok THEN BodyErr(mtu.v)
                          ELSE Body("OpenConnectionReply1",
                                    <<head.v[1], head.v[2],
                                      IF head.v[3] # 0 THEN SomeCookie(cookie.v) ELSE NoCookie,
                                      mtu.v>>)

\* OpenConnectionRequest2::encode_body; fields are
\* <<magic, cookie, client_proof, server_addr, mtu, client_guid>>
EncodeRequest2(f) ==
    f[1] \o <<IF f[2].some THEN 1 ELSE 0>>
         \o (IF f[2].some THEN BeBytes(f[2].v, 4) \o <<IF f[3] THEN 1 ELSE 0>> ELSE <<>>)
         \o EncodeAddr(f[4]) \o BeBytes(f[5], 2) \o BeBytes(f[6], 8)

\* OpenConnectionRequest2::decode_body
DecodeRequest2(bs) ==
    LET magic == DecodeField("magic", bs)
    IN  IF ~magic.ok THEN BodyErr(magic.v)
        ELSE LET rest      == magic.rest
                 remaining == Len(rest)
                 attempt   == DecodeFields(<<"u32", "bool", "addr", "u16", "u64">>, rest)
                 fallback  == DecodeFields(<<"addr", "u16", "u64">>, rest)
             IN  IF remaining >= 5 /\ attempt.ok
                 THEN Body("OpenConnectionRequest2",
                           <<magic.v, SomeCookie(attempt.v[1]), attempt.v[2], attempt.v[3],
                             attempt.v[4], attempt.v[5]>>)
                 ELSE IF ~fallback.ok THEN BodyErr(fallback.v)
                 ELSE Body("OpenConnectionRequest2",
                           <<magic.v, NoCookie, FALSE, fallback.v[1], fallback.v[2],
                             fallback.v[3]>>)

\* Packet::encode_body
EncodeBody(x) ==
    CASE x.kind = "OpenConnectionReply1"   -> EncodeReply1(x.fields)
      [] x.kind = "OpenConnectionRequest2" -> EncodeRequest2(x.fields)
      [] OTHER                             -> EncodeFields(BodyFields(x.kind), x.fields)

\* Packet::decode_body
DecodeBody(kind, bs) ==
    CASE kind = "OpenConnectionReply1"   -> DecodeReply1(bs)
      [] kind = "OpenConnectionRequest2" -> DecodeRequest2(bs)
      [] OTHER -> LET r == DecodeFields(BodyFields(kind), bs)
                  IN  IF r.ok THEN Body(kind, r.v) ELSE BodyErr(r.v)

MaxGuid == 1

MaxPadding == 3

\* The control packet bodies the codec is applied to
ControlBodies ==
    LET Magics         == {[i \in 1..16 |-> 35], [i \in 1..16 |-> 69]}
        Guids          == (0..MaxGuid) \cup {305419896}
        Times          == {0, 123}
        Mtus           == {576, 1400}
        Versions       == {10, 11}
        Cookies        == {NoCookie, SomeCookie(16909060)}
        Paddings       == 0..MaxPadding
        Loopback6      == [i \in 1..16 |-> IF i = 16 THEN 1 ELSE 0]
        AnyV4          == V4(<<0, 0, 0, 0>>, 0)
        Addrs          == {V4(<<127, 0, 0, 1>>, 19132), AnyV4, V4(<<192, 168, 0, 251>>, 4),
                           V6(Loopback6, 19132, 0, 0), V6(Loopback6, 4, 0, 0)}
        SystemAddrs    == {[i \in 1..10 |-> IF i = 1 THEN V4(<<127, 0, 0, 1>>, 0) ELSE AnyV4],
                           [i \in 1..10 |-> AnyV4]}
        Advertisements == {NoBytes, SomeBytes(<<>>), SomeBytes(<<77, 67, 80, 69>>)}
    IN
        {Body("UnconnectedPing", <<t, m>>) : t \in Times, m \in Magics}
        \cup {Body("UnconnectedPong", <<t, g, m, ad>>) :
                  t \in Times, g \in Guids, m \in Magics, ad \in Advertisements}
        \cup {Body("OpenConnectionRequest1", <<m, v, n>>) :
                  m \in Magics, v \in Versions, n \in Paddings}
        \cup {Body("OpenConnectionReply1", <<m, g, c, mtu>>) :
                  m \in Magics, g \in Guids, c \in Cookies, mtu \in Mtus}
        \cup {Body("OpenConnectionRequest2", <<m, c, c.some /\ proof, a, mtu, g>>) :
                  m \in Magics, c \in Cookies, proof \in BOOLEAN, a \in Addrs, mtu \in Mtus,
                  g \in Guids}
        \cup {Body("OpenConnectionReply2", <<m, g, a, mtu, sec>>) :
                  m \in Magics, g \in Guids, a \in Addrs, mtu \in Mtus, sec \in BOOLEAN}
        \cup {Body("IncompatibleProtocolVersion", <<v, m, g>>) :
                  v \in Versions, m \in Magics, g \in Guids}
        \cup {Body("AlreadyConnected", <<m, g>>) : m \in Magics, g \in Guids}
        \cup {Body("ConnectionRequest", <<g, t, sec>>) : g \in Guids, t \in Times, sec \in BOOLEAN}
        \cup {Body("ConnectionRequestAccepted", <<a, 0>> \o sys \o <<t1, t2>>) :
                  a \in Addrs, sys \in SystemAddrs, t1 \in Times, t2 \in Times}
        \cup {Body("ConnectionRequestFailed", <<m, g>>) : m \in Magics, g \in Guids}
        \cup {Body("NewIncomingConnection", <<a>> \o sys \o <<t1, t2>>) :
                  a \in Addrs, sys \in SystemAddrs, t1 \in Times, t2 \in Times}

\* decode_body(encode_body(x))
CodecRoundTrip ==
    \E x \in ControlBodies :
        /\ call' = [fn |-> "round_trip", in |-> x, out |-> DecodeBody(x.kind, EncodeBody(x))]
        /\ OnlyCall

\* The bytes of an OpenConnectionRequest2 body in the cookie-bearing layout
CookieLayout(m, c, proof, a, mtu, g) ==
    m \o BeBytes(c, 4) \o <<IF proof THEN 1 ELSE 0>> \o EncodeAddr(a) \o BeBytes(mtu, 2)
      \o BeBytes(g, 8)

\* The bytes of an OpenConnectionRequest2 body in the legacy layout
LegacyLayout(m, a, mtu, g) == m \o EncodeAddr(a) \o BeBytes(mtu, 2) \o BeBytes(g, 8)

\* OpenConnectionRequest2::decode_body on the bytes of either layout
Request2Decode ==
    LET Loopback6 == [i \in 1..16 |-> IF i = 16 THEN 1 ELSE 0]
        Addrs     == {V4(<<127, 0, 0, 1>>, 19132), V4(<<192, 168, 0, 254>>, 1024 + 4),
                      V4(<<10, 0, 0, 251>>, 1536 + 6),
                      V6(Loopback6, 19132, 0, 0), V6(Loopback6, 260, 0, 1),
                      V6(Loopback6, 19132, 67108864, 0), V6(Loopback6, 19132, 100663296, 0)}
    IN  \E m \in {[i \in 1..16 |-> 35]}, a \in Addrs, mtu \in {576, 1400},
           g \in (0..MaxGuid) \cup {305419896}, layout \in {"cookie", "legacy"},
           c \in {0, 16909060}, proof \in BOOLEAN :
            /\ layout = "legacy" => (c = 0 /\ ~proof)
            /\ call' = [fn  |-> "decode_request2",
                        in  |-> [layout |-> layout, magic |-> m, cookie |-> c, proof |-> proof,
                                 addr |-> a, mtu |-> mtu, guid |-> g],
                        out |-> DecodeRequest2(IF layout = "cookie"
                                               THEN CookieLayout(m, c, proof, a, mtu, g)
                                               ELSE LegacyLayout(m, a, mtu, g))]
            /\ OnlyCall

CodecNext == CodecRoundTrip \/ Request2Decode

SpecCodec == SessionInit /\ [][CodecNext]_vars

\* C20: for every control packet body x, decode_body(encode_body(x)) = x.
C20_BodyRoundTrip == call.fn = "round_trip" => call.out = call.in

\* The bodies other than OpenConnectionRequest2 and a pong with an empty
\* advertisement come back unchanged
RoundTripElsewhere ==
    (/\ call.fn = "round_trip"
     /\ call.in.kind # "OpenConnectionRequest2"
     /\ ~(call.in.kind = "UnconnectedPong" /\ call.in.fields[4] = SomeBytes(<<>>)))
        => call.out = call.in

\* No OpenConnectionRequest2 body comes back unchanged
Request2NeverBack ==
    (call.fn = "round_trip" /\ call.in.kind = "OpenConnectionRequest2")
        => call.out # call.in

\* C21: decoding an OpenConnectionRequest2 body accepts both layouts: the
\* cookie-bearing bytes give Some(cookie) with that proof, the legacy bytes
\* always give cookie None with exactly that address, mtu and guid.
C21_BothLayoutsDecode ==
    call.fn = "decode_request2" =>
        LET x == call.in
        IN  call.out = Body("OpenConnectionRequest2",
                            IF x.layout = "cookie"
                            THEN <<x.magic, SomeCookie(x.cookie), x.proof, x.addr, x.mtu, x.guid>>
                            ELSE <<x.magic, NoCookie, FALSE, x.addr, x.mtu, x.guid>>)

\* A legacy body comes back unchanged unless its address is v6 with a
\* flowinfo whose first byte is 4
LegacyAmbiguity ==
    (call.fn = "decode_request2" /\ ~C21_BothLayoutsDecode)
        => /\ call.in.layout = "legacy"
           /\ call.in.addr.v = 6
           /\ call.in.addr.flowinfo \div 16777216 = 4
           /\ call.out.kind = "OpenConnectionRequest2"
           /\ call.out.fields[2].some

(***************************************************************************)
(* SpecWire: the wire primitives, the Advertisement and RaknetPacket       *)
(* decode, on bytes.                                                       *)
(***************************************************************************)
MaxTrailing == 1

PrimTypes ==
    {"u8", "i8", "bool", "u16", "u16le", "u24le", "u32", "u64", "varuint", "varint", "magic",
     "addr", "padding"}

\* The values each primitive is applied to
PrimSamples(t) ==
    LET AllOnes   == [i \in 1..64 |-> 1]
        TopBit    == [i \in 1..64 |-> IF i = 64 THEN 1 ELSE 0]
        Patterns  == {Bits64(n) : n \in {0, 1, 63, 64, 127, 128, 300, 16383, 16384, 2147483647}}
                         \cup {AllOnes, TopBit,
                               [i \in 1..64 |-> IF i = 64 THEN 0 ELSE 1],
                               [i \in 1..64 |-> IF i <= 6 THEN 0 ELSE 1]}
        Loopback6 == [i \in 1..16 |-> IF i = 16 THEN 1 ELSE 0]
    IN  CASE t = "u8"      -> {0, 1, 255}
          [] t = "i8"      -> {-128, -1, 0, 127}
          [] t = "bool"    -> BOOLEAN
          [] t = "u16"     -> {0, 255, 256, 65535}
          [] t = "u16le"   -> {0, 255, 256, 65535}
          [] t = "u24le"   -> {0, 1, 65536, MASK}
          [] t = "u32"     -> {0, 16909060, 2147483647}
          [] t = "u64"     -> {0, 305419896, 2147483647}
          [] t = "varuint" -> Patterns
          [] t = "varint"  -> Patterns
          [] t = "magic"   -> {[i \in 1..16 |-> 35], [i \in 1..16 |-> i]}
          [] t = "addr"    -> {V4(<<127, 0, 0, 1>>, 19132), V4(<<0, 0, 0, 0>>, 0),
                               V4(<<255, 4, 6, 251>>, 65535),
                               V6(Loopback6, 19132, 0, 0), V6(Loopback6, 1030, 67108864, 7)}
          [] t = "padding" -> 0..MaxPadding

\* decode_raknet(encode_raknet(v)) with bytes of another field behind it
PrimRoundTrip ==
    \E t \in PrimTypes, n \in 0..MaxTrailing :
        \E v \in PrimSamples(t) :
            LET trailing == [i \in 1..n |-> 170]
            IN  /\ t = "padding" => n = 0
                /\ call' = [fn  |-> "prim_round_trip",
                            in  |-> [t |-> t, v |-> v, trailing |-> trailing],
                            out |-> DecodeField(t, EncodeField(t, v) \o trailing)]
                /\ OnlyCall

\* decode_raknet from the first k bytes of an encoded value, k short of all
PrimShort ==
    \E t \in PrimTypes \ {"padding"} :
        \E v \in PrimSamples(t) :
            \E k \in 0..(Len(EncodeField(t, v)) - 1) :
                /\ call' = [fn  |-> "prim_short",
                            in  |-> [t |-> t, v |-> v, trailing |-> k],
                            out |-> DecodeField(t, TakeN(EncodeField(t, v), k))]
                /\ OnlyCall

\* SocketAddr::decode_raknet from bytes whose first byte is not 4 or 6
AddrVersion ==
    \E version \in {0, 1, 3, 5, 7, 23, 255}, n \in {0, 6, 28} :
        /\ call' = [fn  |-> "addr_version",
                    in  |-> [t |-> "addr", v |-> version, trailing |-> n],
                    out |-> DecodeAddr(<<version>> \o [i \in 1..n |-> 0])]
        /\ OnlyCall

\* Advertisement::decode_raknet(encode_raknet(ad)), and decode of no bytes
AdvertRoundTrip ==
    \E some \in BOOLEAN, n \in {0, 1, 2, 4, 255, 256, 65535} :
        LET ad == IF some THEN SomeBytes([i \in 1..n |-> 77]) ELSE NoBytes
        IN  /\ ~some => n = 0
            /\ call' = [fn  |-> "advert",
                        in  |-> ad,
                        out |-> [bytes |-> EncodeAdvertisement(ad),
                                 back  |-> DecodeAdvertisement(EncodeAdvertisement(ad)),
                                 empty |-> DecodeAdvertisement(<<>>)]]
            /\ OnlyCall

\* <$name as Packet>::ID of the packets of open_connection.rs and unconnected.rs
PacketId(kind) ==
    CASE kind = "UnconnectedPing"             -> 1
      [] kind = "UnconnectedPong"             -> 28
      [] kind = "OpenConnectionRequest1"      -> 5
      [] kind = "OpenConnectionReply1"        -> 6
      [] kind = "OpenConnectionRequest2"      -> 7
      [] kind = "OpenConnectionReply2"        -> 8
      [] kind = "ConnectionRequest"           -> 9
      [] kind = "ConnectionRequestAccepted"   -> 16
      [] kind = "ConnectionRequestFailed"     -> 17
      [] kind = "AlreadyConnected"            -> 18
      [] kind = "NewIncomingConnection"       -> 19
      [] kind = "IncompatibleProtocolVersion" -> 25

OfflineKinds ==
    {"UnconnectedPing", "UnconnectedPong", "OpenConnectionRequest1", "OpenConnectionReply1",
     "OpenConnectionRequest2", "OpenConnectionReply2", "ConnectionRequest",
     "ConnectionRequestAccepted", "ConnectionRequestFailed", "AlreadyConnected",
     "NewIncomingConnection", "IncompatibleProtocolVersion"}

\* The IDs of the registered packets of connected.rs
ConnectedIds ==
    [ConnectedPing |-> 0, ConnectedPong |-> 3, NoFreeIncomingConnections |-> 20,
     DisconnectionNotification |-> 21, ConnectionLost |-> 22, ConnectionBanned |-> 23,
     IpRecentlyConnected |-> 26, Timestamp |-> 27, AdvertiseSystem |-> 29]

\* define_raknet_packets!: the IDs with a match arm of their own
RegisteredIds == {PacketId(k) : k \in OfflineKinds} \cup {ConnectedIds[k] : k \in DOMAIN ConnectedIds}

\* The packet registered under id
KindOfId(id) ==
    IF \E k \in OfflineKinds : PacketId(k) = id
    THEN CHOOSE k \in OfflineKinds : PacketId(k) = id
    ELSE CHOOSE k \in DOMAIN ConnectedIds : ConnectedIds[k] = id

\* decode_body of a packet of connected.rs: its bytes, kept as they are
DecodeConnectedBody(kind, bs) == Body(kind, <<bs>>)

UserDataBody(id, payload) == Body("UserData", <<id, payload>>)

\* A decode that has no arm for IDs of 0x80 and more
RaknetDecodeStrict(bs) ==
    IF bs = <<>> THEN BodyErr("UnexpectedEof")
    ELSE IF bs[1] \in RegisteredIds
    THEN IF KindOfId(bs[1]) \in OfflineKinds THEN DecodeBody(KindOfId(bs[1]), Tail(bs))
         ELSE DecodeConnectedBody(KindOfId(bs[1]), Tail(bs))
    ELSE [kind |-> "Err", fields |-> <<"UnknownId", bs[1]>>]

\* RaknetPacket::decode
RaknetDecode(bs) ==
    IF bs = <<>> THEN BodyErr("UnexpectedEof")
    ELSE LET id   == bs[1]
             rest == Tail(bs)
         IN  IF id \in RegisteredIds
             THEN IF KindOfId(id) \in OfflineKinds THEN DecodeBody(KindOfId(id), rest)
                  ELSE DecodeConnectedBody(KindOfId(id), rest)
             ELSE IF id >= 128 THEN UserDataBody(id, rest)
             ELSE [kind |-> "Err", fields |-> <<"UnknownId", id>>]

\* RaknetPacket::encode of UserData { id, payload }
RaknetEncodeUserData(pkt) == <<pkt.fields[1]>> \o pkt.fields[2]

\* The bytes RaknetPacket::decode is applied to: none, or an ID byte and a rest
PacketRests ==
    {<<>>, <<1, 2, 3>>, BeBytes(123, 8) \o [i \in 1..16 |-> 0]}

PacketDecodeCall ==
    \E id \in (0..31) \cup {32, 64, 127, 128, 129, 192, 254, 255}, rest \in PacketRests,
       empty \in BOOLEAN :
        LET bs == IF empty THEN <<>> ELSE <<id>> \o rest
        IN  /\ empty => (id = 0 /\ rest = <<>>)
            /\ call' = [fn |-> "packet_decode", in |-> bs, out |-> RaknetDecode(bs)]
            /\ OnlyCall

UserDataRoundTrip ==
    \E id \in {128, 129, 254, 255}, payload \in PacketRests :
        /\ call' = [fn  |-> "user_data_round_trip",
                    in  |-> UserDataBody(id, payload),
                    out |-> RaknetDecode(RaknetEncodeUserData(UserDataBody(id, payload)))]
        /\ OnlyCall

WireNext ==
    \/ PrimRoundTrip
    \/ PrimShort
    \/ AddrVersion
    \/ AdvertRoundTrip
    \/ PacketDecodeCall
    \/ UserDataRoundTrip

SpecWire == SessionInit /\ [][WireNext]_vars

\* C22: for every wire primitive, decoding the encoded bytes returns the value
\* and leaves exactly the bytes behind it; a buffer that is too short gives
\* UnexpectedEof, and an address version other than 4 or 6 InvalidAddrVersion.
C22_PrimitivesRoundTrip ==
    /\ call.fn = "prim_round_trip" => call.out = DecOk(call.in.v, call.in.trailing)
    /\ call.fn = "prim_short" => call.out = DecErr("UnexpectedEof")
    /\ call.fn = "addr_version" => call.out = DecErr("InvalidAddrVersion")

C22_Witness ==
    /\ call.fn = "prim_round_trip"
    /\ call.in.t = "varint"
    /\ call.in.v = [i \in 1..64 |-> 1]
    /\ call.in.trailing = <<170>>
    /\ call.out.ok

\* C23: for every Advertisement value (None, or Some(bytes) of at most 65535
\* bytes) decoding the encoded form returns the same value; an absent
\* advertisement is written as zero bytes, and decoding an exhausted buffer
\* yields None.
C23_AdvertisementRoundTrip ==
    call.fn = "advert" =>
        /\ call.out.back = DecOk(call.in, <<>>)
        /\ ~call.in.some => call.out.bytes = <<>>
        /\ call.out.empty = DecOk(NoBytes, <<>>)

\* C23 as amended: None and Some(bytes) of 1 to 65535 bytes come back
\* unchanged; Some of no bytes is written as zero bytes, like None, and comes
\* back as None.
C23_AdvertisementAmended ==
    call.fn = "advert" =>
        /\ (call.in.some /\ call.in.bytes # <<>>) => call.out.back = DecOk(call.in, <<>>)
        /\ (~call.in.some \/ call.in.bytes = <<>>)
               => (call.out.bytes = <<>> /\ call.out.back = DecOk(NoBytes, <<>>))
        /\ call.out.empty = DecOk(NoBytes, <<>>)

C23_Witness ==
    /\ call.fn = "advert"
    /\ call.in = SomeBytes(<<>>)
    /\ call.out.bytes = <<>>
    /\ call.out.back.v = NoBytes

\* C24: RaknetPacket::decode reads one ID byte; a registered ID decodes that
\* packet's body, an ID of 0x80 or more gives UserData with all remaining
\* bytes, any other ID fails with UnknownId(id), an empty buffer with
\* UnexpectedEof; an encoded UserData decodes to the same id and payload.
C24_PacketDecode ==
    /\ call.fn = "packet_decode" =>
           IF call.in = <<>> THEN call.out = BodyErr("UnexpectedEof")
           ELSE LET id   == call.in[1]
                    rest == Tail(call.in)
                IN  /\ id \in RegisteredIds =>
                           \/ call.out.kind = KindOfId(id)
                           \/ call.out.kind = "Err" /\ call.out.fields[1] # "UnknownId"
                    /\ (id = 1 /\ Len(rest) = 24) =>
                           call.out = Body("UnconnectedPing", <<123, [i \in 1..16 |-> 0]>>)
                    /\ (id \notin RegisteredIds /\ id >= 128) =>
                           call.out = UserDataBody(id, rest)
                    /\ (id \notin RegisteredIds /\ id < 128) =>
                           call.out = [kind |-> "Err", fields |-> <<"UnknownId", id>>]
    /\ call.fn = "user_data_round_trip" => call.out = call.in

C24_Witness ==
    /\ call.fn = "packet_decode"
    /\ call.in = <<128, 1, 2, 3>>
    /\ call.out = UserDataBody(128, <<1, 2, 3>>)

\* C25: every frame the outbound queue path produces has reliable_index set
\* iff its reliability is reliable, sequence_index set iff it is sequenced,
\* ordering_index and ordering_channel set iff it is ordered or sequenced, and
\* split info set iff its split flag is set.
C25_FieldPresence ==
    \A k \in 1..Len(outgoing) :
        LET f == outgoing[k]
            rel == f.reliability
        IN  /\ (f.reliable_index # None) <=> IsReliable(rel)
            /\ (f.sequence_index # None) <=> IsSequenced(rel)
            /\ (f.ordering_index # None) <=> (IsOrdered(rel) \/ IsSequenced(rel))
            /\ (f.ordering_channel # None) <=> (IsOrdered(rel) \/ IsSequenced(rel))
            /\ f.split.some <=> f.is_split

\* The frames of reliabilities that are not sequenced have the fields the
\* claim names
PresenceUnlessSequenced ==
    \A k \in 1..Len(outgoing) :
        LET f == outgoing[k]
            rel == f.reliability
        IN  ~IsSequenced(rel) =>
                /\ (f.reliable_index # None) <=> IsReliable(rel)
                /\ f.sequence_index = None
                /\ (f.ordering_index # None) <=> IsOrdered(rel)
                /\ (f.ordering_channel # None) <=> IsOrdered(rel)
                /\ f.split.some <=> f.is_split

(***************************************************************************)
(* SpecFrame: encode_raknet and decode_raknet of EncapsulatedPacket, on    *)
(* bytes.  The payload of a frame is a sequence of bytes here.             *)
(***************************************************************************)
\* EncapsulatedPacketHeader::encode_raknet: the flags byte
EncapFlags(f) ==
    f.reliability * 32 + (IF f.is_split THEN 16 ELSE 0) + (IF f.needs_bas THEN 4 ELSE 0)

\* An expect of encode_raknet finds None
EncapExpectFails(f) ==
    \/ IsReliable(f.reliability) /\ f.reliable_index = None
    \/ IsSequenced(f.reliability) /\ f.sequence_index = None
    \/ (IsOrdered(f.reliability) \/ IsSequenced(f.reliability))
           /\ (f.ordering_index = None \/ f.ordering_channel = None)
    \/ f.is_split /\ ~f.split.some

\* The types of the fields between the flags byte and the payload
EncapFieldTypes(rel, isSplit) ==
    <<"u16">>
        \o (IF IsReliable(rel) THEN <<"u24le">> ELSE <<>>)
        \o (IF IsSequenced(rel) THEN <<"u24le">> ELSE <<>>)
        \o (IF IsOrdered(rel) \/ IsSequenced(rel) THEN <<"u24le", "u8">> ELSE <<>>)
        \o (IF isSplit THEN <<"u32", "u16", "u32">> ELSE <<>>)

\* EncapsulatedPacket::encode_raknet, when no expect fails
EncapEncode(f) ==
    LET rel == f.reliability
    IN  <<EncapFlags(f)>>
            \o EncodeFields(EncapFieldTypes(rel, f.is_split),
                   <<f.bit_length>>
                       \o (IF IsReliable(rel) THEN <<f.reliable_index>> ELSE <<>>)
                       \o (IF IsSequenced(rel) THEN <<f.sequence_index>> ELSE <<>>)
                       \o (IF IsOrdered(rel) \/ IsSequenced(rel)
                           THEN <<f.ordering_index, f.ordering_channel>> ELSE <<>>)
                       \o (IF f.is_split THEN <<f.split.count, f.split.id, f.split.index>>
                           ELSE <<>>))
            \o f.payload

\* A decoder that takes whatever bytes are left as the payload
EncapDecodeGreedy(bs) ==
    IF bs = <<>> THEN DecErr("UnexpectedEof")
    ELSE DecOk([reliability |-> bs[1] \div 32, payload |-> Tail(bs)], <<>>)

\* EncapsulatedPacket::decode_raknet
EncapDecode(bs) ==
    IF bs = <<>> THEN DecErr("UnexpectedEof")
    ELSE LET flags   == bs[1]
             rel     == flags \div 32
             isSplit == (flags \div 16) % 2 = 1
             needs   == (flags \div 4) % 2 = 1
             r       == DecodeFields(EncapFieldTypes(rel, isSplit), Tail(bs))
         IN  IF rel \notin Reliabilities THEN DecErr("UnknownReliability")
             ELSE IF ~r.ok THEN r
             ELSE LET v    == r.v
                      len  == (v[1] + 7) \div 8
                      nRel == IF IsReliable(rel) THEN 1 ELSE 0
                      nSeq == IF IsSequenced(rel) THEN 1 ELSE 0
                      nOrd == IF IsOrdered(rel) \/ IsSequenced(rel) THEN 2 ELSE 0
                      at   == 1 + nRel + nSeq + nOrd
                  IN  IF Len(r.rest) < len THEN DecErr("UnexpectedEof")
                      ELSE DecOk(
                               [EncapsulatedPacket(rel, isSplit, v[1],
                                    IF nRel = 1 THEN Seq24New(v[2]) ELSE None,
                                    IF nSeq = 1 THEN Seq24New(v[1 + nRel + 1]) ELSE None,
                                    IF nOrd = 2 THEN Seq24New(v[1 + nRel + nSeq + 1]) ELSE None,
                                    IF nOrd = 2 THEN v[1 + nRel + nSeq + 2] ELSE None,
                                    IF isSplit THEN SomeSplit(v[at + 1], v[at + 2], v[at + 3])
                                    ELSE NoSplit,
                                    TakeN(r.rest, len))
                                EXCEPT !.needs_bas = needs],
                               DropN(r.rest, len))

MaxPayloadBytes == 3

\* The frames that satisfy the field-presence invariants, with payload bytes
FrameSamples ==
    {[EncapsulatedPacket(rel, isSplit, bits,
          IF IsReliable(rel) THEN ridx ELSE None,
          IF IsSequenced(rel) THEN 1 ELSE None,
          IF IsOrdered(rel) \/ IsSequenced(rel) THEN 65793 ELSE None,
          IF IsOrdered(rel) \/ IsSequenced(rel) THEN ch ELSE None,
          IF isSplit THEN SomeSplit(70000, 65535, 69999) ELSE NoSplit,
          [i \in 1..((bits + 7) \div 8) |-> 200 + i])
      EXCEPT !.needs_bas = needs] :
        rel \in Reliabilities, isSplit \in BOOLEAN, needs \in BOOLEAN,
        bits \in {0, 9, 8 * MaxPayloadBytes}, ridx \in {0, MASK}, ch \in {0, 255}}

\* decode_raknet(encode_raknet(f)) with the bytes of another frame behind it
FrameRoundTrip ==
    \E f \in FrameSamples, n \in 0..MaxTrailing :
        LET trailing == [i \in 1..n |-> 170]
        IN  /\ call' = [fn  |-> "frame_round_trip",
                        in  |-> [frame |-> f, trailing |-> trailing],
                        out |-> EncapDecode(EncapEncode(f) \o trailing)]
            /\ OnlyCall

\* decode_raknet from the first k bytes of an encoded frame, k short of all
FrameShort ==
    \E f \in FrameSamples :
        \E k \in 0..(Len(EncapEncode(f)) - 1) :
            /\ f.needs_bas /\ f.bit_length = 8 * MaxPayloadBytes
            /\ f.ordering_channel \in {None, 0} /\ f.reliable_index \in {None, 0}
            /\ call' = [fn  |-> "frame_short",
                        in  |-> [frame |-> f, trailing |-> k],
                        out |-> EncapDecode(TakeN(EncapEncode(f), k))]
            /\ OnlyCall

FrameNext == FrameRoundTrip \/ FrameShort

SpecFrame == SessionInit /\ [][FrameNext]_vars

\* C26: for every frame that satisfies the field-presence invariants and
\* whose payload has ceil(bit_length / 8) bytes, decode_raknet of the encoded
\* bytes returns an equal frame, reading only the optional fields its
\* reliability and split flag call for; with fewer payload bytes than that
\* left it returns UnexpectedEof.
C26_FrameRoundTrip ==
    /\ call.fn = "frame_round_trip" =>
           /\ ~EncapExpectFails(call.in.frame)
           /\ call.out = DecOk(call.in.frame, call.in.trailing)
    /\ call.fn = "frame_short" => call.out = DecErr("UnexpectedEof")

C26_Witness ==
    /\ call.fn = "frame_round_trip"
    /\ call.in.frame.reliability = ReliableSequenced
    /\ call.in.frame.is_split
    /\ call.in.frame.bit_length = 9
    /\ call.in.trailing = <<170>>
    /\ call.out.ok
    /\ call.out.v.payload = <<201, 202>>

C26_WitnessShort ==
    /\ call.fn = "frame_short"
    /\ call.in.frame.reliability = Unreliable
    /\ call.in.trailing = Len(EncapEncode(call.in.frame)) - 1

\* C27: no sequence of sends (any reliability, any channel) drives the
\* session into a panic: the ordering counter is never indexed out of range
\* and encoding a queued frame never finds a required index or split info
\* missing.
C27_NeverPanics ==
    /\ ~panicked
    /\ \A k \in 1..Len(outgoing) : ~EncapExpectFails(outgoing[k])

\* The frames whose encoding panics are those of the sequenced reliabilities,
\* and the task panics only after a send on a channel past the last one
PanicsOnlyAsFound ==
    /\ \A k \in 1..Len(outgoing) :
           EncapExpectFails(outgoing[k]) <=> IsSequenced(outgoing[k].reliability)
    /\ \A k \in 1..Len(queue_log) :
           ~OrderIndexPanics(queue_log[k].reliability, queue_log[k].channel)

(***************************************************************************)
(* SpecPing: the listener answers UnconnectedPing while the application    *)
(* sets and reads the advertisement and peers go through the handshake     *)
(***************************************************************************)
\* The bytes of a pong, or of whichever advertisement
AdvertisementContent(ad) == IF ad.some THEN ad.bytes ELSE <<>>

\* A handler that answers with the advertisement the listener was bound with
HandleUnconnectedPingStale(m, p, ping, ad) ==
    LET pong == Body("UnconnectedPong",
                     <<ping.fields[1], 7, ping.fields[2], SomeBytes(DefaultAdvertisement)>>)
    IN  [m EXCEPT !.wire = Append(m.wire,
             Sent(p, [id |-> "UnconnectedPong",
                      bytes |-> <<PacketId("UnconnectedPong")>> \o EncodeBody(pong)]))]

\* handle_offline for the decoded UnconnectedPing{ping_time, magic}: one
\* UnconnectedPong with the ping's time, the server GUID (7 here), the magic
\* and a copy of the advertisement read through the lock
HandleUnconnectedPing(m, p, ping, ad) ==
    LET pong == Body("UnconnectedPong", <<ping.fields[1], 7, ping.fields[2], SomeBytes(ad)>>)
    IN  [m EXCEPT !.wire = Append(m.wire,
             Sent(p, [id |-> "UnconnectedPong",
                      bytes |-> <<PacketId("UnconnectedPong")>> \o EncodeBody(pong)]))]

\* dispatch_datagram for the bytes of a ping: they do not decode as a
\* datagram, so a session the peer has is removed before handle_offline
DispatchPing(m, p, ping, ad) ==
    IF HasSession(m.sessions, p)
      THEN HandleUnconnectedPing([m EXCEPT !.sessions = DropSession(m.sessions, p)],
                                 p, ping, ad)
      ELSE HandleUnconnectedPing(m, p, ping, ad)

MaxAdvertisement == 4

\* RaknetListener::set_advertisement: the write lock, then *guard = data
SetAdvertisement ==
    \E n \in 0..MaxAdvertisement :
        /\ advertisement' = [i \in 1..n |-> 64 + i]
        /\ wire' = <<>>
        /\ mux_event' = NoEvent
        /\ call' = NoCall
        /\ UNCHANGED <<now, sessions, pending, to_app, new_conns, received, ticked,
                       listener_open, handles_dropped, muxer_running, chanVars, txVars,
                       rxVars>>

\* RaknetListener::get_advertisement: the read lock, then clone
GetAdvertisement ==
    /\ call' = [fn |-> "get_advertisement", in |-> <<>>, out |-> advertisement]
    /\ UNCHANGED advertisement
    /\ OnlyCall

\* socket.recv_from returned an UnconnectedPing from peer p
PingRecv ==
    \E p \in Peers, t \in {0, 1, 86400000}, magic \in {[i \in 1..16 |-> 35]} :
        /\ MuxAssign(DispatchPing(MuxState, p, Body("UnconnectedPing", <<t, magic>>),
                                  advertisement))
        /\ mux_event' = [kind |-> "ping", peer |-> p, bytes |-> EmptyBytes,
                         before |-> sessions, was_pending |-> p \in pending,
                         time |-> t]
        /\ UNCHANGED <<now, ticked, received, lifeVars, txVars, rxVars>>

\* The peers go through the handshake
PingHandshake ==
    \E p \in Peers : \E bytes \in QuietBytes :
        /\ bytes.packet = "ConnectionRequest" => Len(new_conns) < MaxAnnounced
        /\ MuxReceive(p, bytes, TRUE)

PingNext == SetAdvertisement \/ GetAdvertisement \/ PingRecv \/ PingHandshake

SpecPing == SessionInit /\ [][PingNext]_vars

MaxRangeSpan == 5

\* let mut seq = range.start
RangeLoopInit(range) == [seq |-> range.start, calls |-> <<>>, done |-> FALSE]

\* A loop that tests for the end before it calls the handler
RangeLoopBodyExclusive(st, range) ==
    IF st.seq = range.end THEN [st EXCEPT !.done = TRUE]
    ELSE [st EXCEPT !.calls = Append(st.calls, st.seq), !.seq = Seq24Next(st.seq)]

\* One pass of the loop: f(seq); if seq == range.end { break; } seq = seq.next()
RangeLoopBody(st, range) ==
    LET called == [st EXCEPT !.calls = Append(st.calls, st.seq)]
    IN  IF st.seq = range.end THEN [called EXCEPT !.done = TRUE]
        ELSE [called EXCEPT !.seq = Seq24Next(st.seq)]

\* for_each_sequence_in_range is called with a range: up to MaxRangeSpan
\* sequences past start, or the sequence before start (the whole circle)
RangeCall ==
    \E start \in {0, 5, HALF - 2, MASK - 1, MASK} :
        \E d \in (0..MaxRangeSpan) \cup {MASK} :
            LET range == [start |-> start, end |-> Seq24New(start + d)]
            IN  /\ call' = [fn  |-> "for_each_sequence_in_range",
                            in  |-> range,
                            out |-> RangeLoopInit(range)]
                /\ OnlyCall

\* The loop makes its next pass; a walk of the whole circle is followed for
\* its first MaxRangeSpan + 1 passes
RangeLoop ==
    /\ call.fn = "for_each_sequence_in_range"
    /\ ~call.out.done
    /\ Len(call.out.calls) <= MaxRangeSpan
    /\ call' = [call EXCEPT !.out = RangeLoopBody(call.out, call.in)]
    /\ OnlyCall

RangeNext == RangeCall \/ RangeLoop

SpecRange == SessionInit /\ [][RangeNext]_vars

\* C29: iterating a range (start, end) of 24-bit values calls the handler once
\* for each sequence from start to end, stepping with next, and stops after
\* ((end - start) mod 2^24) + 1 calls: one call when start = end, and the
\* sequences on both sides of the wrap from 2^24 - 1 to 0 when the range spans it.
C29_RangeIteration ==
    call.fn = "for_each_sequence_in_range" =>
        LET range == call.in
            calls == call.out.calls
            span  == RangeOffset(range.end, range)
        IN  /\ \A i \in 1..Len(calls) : calls[i] = Seq24New(range.start + i - 1)
            /\ Len(calls) <= span + 1
            /\ call.out.done <=> Len(calls) = span + 1
            /\ call.out.done => calls[Len(calls)] = range.end
            /\ ~call.out.done => call.out.seq = Seq24New(range.start + Len(calls))

C29_Witness ==
    /\ call.fn = "for_each_sequence_in_range"
    /\ call.in = [start |-> MASK - 1, end |-> 2]
    /\ call.out.done
    /\ call.out.calls = <<MASK - 1, MASK, 0, 1, 2>>

C29_WitnessSingle ==
    /\ call.fn = "for_each_sequence_in_range"
    /\ call.in = [start |-> 5, end |-> 5]
    /\ call.out.done
    /\ call.out.calls = <<5>>

\* C30: an ACK for a sequence that is not in the sent-datagrams map (never
\* sent, or acknowledged before) changes neither the map nor the sliding
\* window; each tracked data datagram gives the sliding window one ACK sample,
\* with its own send_time, when it is acknowledged, and is then out of the map.
C30_AckOncePerDatagram ==
    /\ \A s \in acked_seqs : s \notin DOMAIN sent_datagrams
    /\ last_processed.acks # <<>> =>
           LET before  == last_processed.sent
               acks    == last_processed.acks
               naks    == last_processed.naks
               covered == {s \in DOMAIN before :
                              \E i \in 1..Len(acks) : Covers(acks[i], s)}
               left    == {s \in DOMAIN before \ covered :
                              \A i \in 1..Len(naks) : ~Covers(naks[i], s)}
           IN  /\ DOMAIN sent_datagrams \subseteq DOMAIN before \ covered
               /\ \A s \in left : s \in DOMAIN sent_datagrams /\ sent_datagrams[s] = before[s]
               /\ \A s \in covered :
                      Cardinality({i \in 1..Len(on_ack_log) : on_ack_log[i].seq = s})
                          = (IF before[s].payload = "EncapsulatedPackets" THEN 1 ELSE 0)
               /\ \A i \in 1..Len(on_ack_log) :
                      /\ on_ack_log[i].seq \in covered
                      /\ on_ack_log[i].send_time = before[on_ack_log[i].seq].send_time

\* An ACK is processed for a sequence acknowledged before, with a datagram
\* still in the map
C30_Witness ==
    /\ last_processed.acks # <<>>
    /\ \E s \in acked_seqs : Covers(last_processed.acks[1], s) /\ s \notin DOMAIN last_processed.sent
    /\ on_ack_log = <<>>
    /\ last_processed.sent # EmptyMap
    /\ sent_datagrams = last_processed.sent

C30_WitnessSample ==
    /\ last_processed.acks # <<>>
    /\ Len(on_ack_log) = 2
    /\ now > 0

(***************************************************************************)
(* SpecAckNak: an ACK payload and a NACK payload reach the session in      *)
(* either order before it processes them                                   *)
(***************************************************************************)
MaxRaceQueued == 2

RaceQueue ==
    /\ Len(queue_log) < MaxRaceQueued
    /\ QueuePacket(600, ReliableOrdered, 0)
    /\ UNCHANGED <<rxVars, muxVars>>

RaceFlush == FlushResult.seq <= MaxRaceQueued /\ Flush /\ UNCHANGED muxVars

\* handle_ack_payload while no ACK range waits
RaceAck ==
    \E r \in AckRanges :
        /\ incoming_acks = <<>>
        /\ HandleAckPayload(<<r>>)
        /\ UNCHANGED <<rxVars, muxVars>>

\* handle_nack_payload while no NACK range waits
RaceNack ==
    \E r \in AckRanges :
        /\ incoming_naks = <<>>
        /\ HandleNackPayload(<<r>>)
        /\ UNCHANGED <<rxVars, muxVars>>

RaceProcess == ProcessIncomingAcksNaks /\ UNCHANGED <<rxVars, muxVars>>

RaceAdvance == AdvanceTime /\ UNCHANGED muxVars

AckNakNext ==
    \/ RaceQueue
    \/ RaceFlush
    \/ RaceAck
    \/ RaceNack
    \/ RaceProcess
    \/ RaceAdvance

SpecAckNak == SessionInit /\ [][AckNakNext]_vars

\* The tracked sequences that both an ACK range and a NACK range of the
\* processing step just taken name
AckedAndNacked ==
    {s \in DOMAIN last_processed.sent :
        /\ \E i \in 1..Len(last_processed.acks) : Covers(last_processed.acks[i], s)
        /\ \E i \in 1..Len(last_processed.naks) : Covers(last_processed.naks[i], s)}

\* C31: when an ACK and a NACK for the same datagram sequence are both pending
\* as the session processes them, the ACK is applied first: the datagram is
\* out of the sent-datagrams map, so it is not sent again, and the sliding
\* window gets no on_nak for it.
C31_AckBeforeNack ==
    \A s \in AckedAndNacked :
        /\ s \notin DOMAIN sent_datagrams
        /\ \A i \in 1..Len(on_nak_log) : on_nak_log[i] # s
        /\ \E i \in 1..Len(on_ack_log) : on_ack_log[i].seq = s

\* Sequence 0 is acknowledged and reported missing at once, sequence 1 only
\* reported missing
C31_Witness ==
    /\ 0 \in AckedAndNacked
    /\ 1 \in DOMAIN last_processed.sent
    /\ 1 \notin AckedAndNacked
    /\ on_nak_log = <<1>>
    /\ DOMAIN sent_datagrams = {1}

(***************************************************************************)
(* SpecInbound: fragments of an ordered split message, an ordered frame    *)
(* that waits for it, and two frames with one reliable index               *)
(***************************************************************************)
InboundFrames ==
    { Frame(ReliableOrdered, 5 + i, 0, 0, SomeSplit(2, 7, i), UserMessage(1), 10 * i, 10)
        : i \in 0..1 }
    \cup
    { Frame(ReliableOrdered, 1, 1, 0, NoSplit, UserMessage(2), 0, 10),
      Frame(Reliable, 2, None, None, NoSplit, UserMessage(3), 0, 10),
      Frame(Reliable, 2, None, None, NoSplit, TruncatedMessage(4), 0, 1) }

InboundNext == RxReceive(InboundFrames)

SpecInbound == SessionInit /\ [][InboundNext]_vars

\* Fragment f is the last one its split message waits for
CompletesSplit(f) ==
    /\ f.split.id \in DOMAIN split_assembler
    /\ f.split.index \notin DOMAIN split_assembler[f.split.id].slots
    /\ DOMAIN split_assembler[f.split.id].slots \cup {f.split.index}
           = 0..(split_assembler[f.split.id].count - 1)

\* The step hands the session a datagram with the one frame f
GivenAlone(f) == HandleDatagram(Seq24Next(recv_high), <<f>>)

InboundOrderStep ==
    \A f \in InboundFrames :
        GivenAlone(f) =>
            /\ (f.is_split /\ ~CompletesSplit(f)) =>
                   /\ rx_result'.out = <<>> /\ rx_result'.err = "none"
                   /\ delivered' = delivered
                   /\ reliable_seen' = reliable_seen
                   /\ order_queue' = order_queue
                   /\ order_read' = order_read
            /\ (~f.is_split /\ f.reliable_index \in reliable_seen) =>
                   /\ rx_result'.out = <<>> /\ rx_result'.err = "none"
                   /\ delivered' = delivered
                   /\ order_queue' = order_queue
                   /\ order_read' = order_read
                   /\ split_assembler' = split_assembler
            /\ (f.is_split /\ CompletesSplit(f)) =>
                   f.split.id \notin DOMAIN split_assembler'

\* C32: inbound frames go through split assembly, then the duplicate check,
\* then ordering or decoding: a fragment that does not complete its split
\* message emits no packet and leaves the duplicate window and the ordering
\* queues as they were, and a frame rejected as a duplicate reaches neither
\* the ordering queue nor the decoder.
C32_InboundOrder == [][InboundOrderStep]_vars

\* One fragment waits in the assembler with no reliable index marked for it,
\* and the frame with reliable index 2 has come again
C32_Witness ==
    /\ split_assembler # EmptyMap
    /\ reliable_seen = {2}
    /\ Len(delivered) = 1
    /\ rx_result.out = <<>>
    /\ rx_result.err = "none"
    /\ Seq24Next(recv_high) >= 3

(***************************************************************************)
(* SpecDecode: frames whose payload is an unregistered ID, an              *)
(* EncapsulatedAck, an EncapsulatedNak or an application message           *)
(***************************************************************************)
DecodeFrames ==
    { Frame(Unreliable, None, None, None, NoSplit, UnregisteredMessage(1), 0, 10),
      Frame(Unreliable, None, None, None, NoSplit, AckMessage(2), 0, 10),
      Frame(Unreliable, None, None, None, NoSplit, NakMessage(3), 0, 10),
      Frame(Unreliable, None, None, None, NoSplit, UserMessage(4), 0, 10) }

\* A decode_and_push with no arm for UnknownId
DecodeAndPushBytesStrict(payload, r) ==
        IF r.kind = "Err" THEN [err |-> r.fields[1], pkt |-> NoPacket]
        ELSE [err |-> "none", pkt |-> [some |-> TRUE, id |-> payload[1], payload |-> r]]

\* Session::decode_and_push on the bytes of a payload, up to the packet it
\* pushes: the error it returns and the packet; r is what RaknetPacket::decode
\* returned for the payload
DecodeAndPushBytes(payload, r) ==
        IF r.kind = "Err" /\ r.fields[1] = "UnknownId"
          THEN [err |-> "none",
                pkt |-> [some |-> TRUE, id |-> r.fields[2],
                         payload |-> UserDataBody(r.fields[2],
                                         IF payload # <<>> THEN Tail(payload) ELSE <<>>)]]
        ELSE IF r.kind = "Err" THEN [err |-> r.fields[1], pkt |-> NoPacket]
        ELSE [err |-> "none", pkt |-> [some |-> TRUE, id |-> payload[1], payload |-> r]]

\* decode_and_push is given the bytes of a payload
DecodePushCall ==
    \E id \in {2, 127, 128}, rest \in {<<>>, <<1, 2, 3>>}, empty \in BOOLEAN :
        LET bs == IF empty THEN <<>> ELSE <<id>> \o rest
        IN  /\ empty => (id = 2 /\ rest = <<>>)
            /\ call' = [fn |-> "decode_and_push", in |-> bs, out |-> DecodeAndPushBytes(bs, RaknetDecode(bs))]
            /\ OnlyCall

MaxDecodeDatagrams == 3

\* The next data datagram arrives with one or two of the frames
DecodeReceive ==
    \E frames \in RxDatagrams(DecodeFrames) :
        /\ Seq24Next(recv_high) < MaxDecodeDatagrams
        /\ HandleDatagram(Seq24Next(recv_high), frames)
        /\ UNCHANGED muxVars

DecodeNext == DecodeReceive \/ DecodePushCall

SpecDecode == SessionInit /\ [][DecodeNext]_vars

\* C33: a frame payload whose first byte is an ID below 0x80 with no packet
\* registered for it gives no error: decode_and_push emits UserData with that
\* ID and the bytes after it, so handle_data_payload never returns UnknownId;
\* a frame that decodes to EncapsulatedAck or EncapsulatedNak only extends
\* the queue of ACK or NACK ranges and is never emitted.
C33_UnknownIdIsUserData ==
    /\ rx_result.err # "UnknownId"
    /\ \A i \in 1..Len(delivered) :
           \E f \in DecodeFrames :
               /\ delivered[i] = UserData(f.payload)
               /\ f.payload[1].msg.kind \in {"UnknownId", "UserData"}
    /\ \A f \in fed.all :
           /\ f.payload[1].msg.kind \in {"UnknownId", "UserData"}
                  => \E i \in 1..Len(delivered) : delivered[i] = UserData(f.payload)
           /\ f.payload[1].msg.kind = "EncapsulatedAck"
                  => \E i \in 1..Len(incoming_acks) :
                         incoming_acks[i] = SequenceRange(f.payload[1].msg.n,
                                                          f.payload[1].msg.n)
           /\ f.payload[1].msg.kind = "EncapsulatedNak"
                  => \E i \in 1..Len(incoming_naks) :
                         incoming_naks[i] = SequenceRange(f.payload[1].msg.n,
                                                          f.payload[1].msg.n)
    /\ Len(delivered) + Len(incoming_acks) + Len(incoming_naks)
           <= 2 * Seq24Next(recv_high)
    /\ call.fn = "decode_and_push" =>
           /\ call.out.err # "UnknownId"
           /\ (call.in # <<>> /\ call.in[1] < 128 /\ call.in[1] \notin RegisteredIds) =>
                  /\ call.out.err = "none"
                  /\ call.out.pkt.payload = UserDataBody(call.in[1], Tail(call.in))

\* A datagram with an unregistered ID and an EncapsulatedAck has been handled
\* and decode_and_push was given the bytes 02 01 02 03
C33_Witness ==
    /\ rx_result.err = "none"
    /\ Len(rx_result.out) = 1
    /\ rx_result.out[1].bytes[1].msg.kind = "UnknownId"
    /\ incoming_acks = <<SequenceRange(2, 2)>>
    /\ call.fn = "decode_and_push"
    /\ call.in = <<2, 1, 2, 3>>

(***************************************************************************)
(* SpecErr: a peer whose data datagrams carry a frame that fails to decode *)
(***************************************************************************)
ErrDatagram == DatagramBytes("UserDataTruncated")

ErrBytes ==
    { OfflineBytes("OpenConnectionRequest1", RAKNET_PROTOCOL_VERSION),
      OfflineBytes("OpenConnectionRequest2", 0),
      DatagramBytes("ConnectionRequest"),
      DatagramBytes("UserData"),
      ErrDatagram }

ErrRecv ==
    \E bytes \in ErrBytes :
        /\ now < MaxClockSteps * SESSION_STALE
        /\ bytes.packet = "UserData" => Len(to_app["p1"]) < MaxInbox
        /\ bytes.packet = "ConnectionRequest" => Len(new_conns) < MaxAnnounced
        /\ MuxReceive("p1", bytes, TRUE)

ErrNext == ErrRecv \/ MuxSend \/ MuxTick \/ MuxClock

SpecErr == SessionInit /\ [][ErrNext]_vars

\* The step handles the datagram with the failing frame for a peer that has
\* a session
ErrDatagramStep(p) ==
    /\ p \in DOMAIN sessions
    /\ MuxReceive(p, ErrDatagram, TRUE)

\* No message of the datagram goes to the application of p: its channel gets
\* nothing, or the terminal error of a session that is removed
NothingDelivered(p) ==
    \/ to_app'[p] = to_app[p]
    \/ /\ p \notin DOMAIN sessions'
       /\ sessions[p].announced
       /\ to_app'[p] = Append(to_app[p], CloseNotice(sessions[p]))

\* C34 as stated: when a frame of a data datagram fails to decode (not with
\* UnknownId), none of the packets of its earlier frames is returned, nothing
\* of the datagram reaches the application, and the session stays in the
\* sessions map.
C34_SessionStays ==
    [][\A p \in Peers :
          ErrDatagramStep(p) => (to_app'[p] = to_app[p] /\ p \in DOMAIN sessions')]_vars

\* C34 amended: when a frame of a data datagram fails to decode (not with
\* UnknownId), handle_data_payload returns the error and none of the packets
\* of the earlier frames, so no message of the datagram reaches the
\* application; the muxer ignores the error, and the session stays in the
\* sessions map unless its state is Closed after the flush that follows, in
\* which case it is removed as after any datagram (an announced one with its
\* terminal error).
C34_ErrorIgnored ==
    [][\A p \in Peers :
          ErrDatagramStep(p) =>
              /\ FramesResult(TruncatedFrames) = <<>>
              /\ NothingDelivered(p)
              /\ p \notin DOMAIN sessions' => sessions[p].state = "Closed"
              /\ sessions[p].state # "Closed" =>
                     /\ to_app'[p] = to_app[p]
                     /\ sessions'[p].state = sessions[p].state]_vars

\* The datagram with the failing frame was handled for a Connected, announced
\* session, which is still in the map
C34_Witness ==
    /\ mux_event.kind = "datagram"
    /\ mux_event.bytes = ErrDatagram
    /\ mux_event.peer \in DOMAIN sessions
    /\ sessions[mux_event.peer].state = "Connected"
    /\ sessions[mux_event.peer].announced
    /\ Len(HandleDataPayload(
               [asm |-> EmptyMap, seen |-> {},
                oread |-> [c \in 0..(MAXIMUM_ORDERING_CHANNELS - 1) |-> 0],
                oqueue |-> EmptyMap, acks |-> <<>>, naks |-> <<>>,
                out |-> <<>>, err |-> "none"],
               TruncatedFrames).out) = 1

(***************************************************************************)
(* Claims about datagrams of peers without a session and outbound messages *)
(***************************************************************************)
\* The step handles bytes of a peer that has no session; the bytes are empty
\* or do not start with an offline packet ID
StrayDatagramStep ==
    /\ mux_event'.kind = "datagram"
    /\ ~HasSession(sessions, mux_event'.peer)
    /\ mux_event'.bytes.kind = "Empty" \/ ~IsOfflinePacketId(mux_event'.bytes)

\* C35: a datagram from a peer that has no session is ignored when it is
\* empty or its first byte is not an offline packet ID: the sessions map and
\* the pending map are unchanged, nothing is sent and nothing is announced to
\* the application.
C35_StrayDatagramIgnored ==
    [][StrayDatagramStep =>
              /\ sessions' = sessions
              /\ pending' = pending
              /\ wire' = <<>>
              /\ new_conns' = new_conns
              /\ to_app' = to_app]_vars

\* A data datagram has been handled for a peer that is pending and has no
\* session, while the other peer has one
C35_Witness ==
    /\ mux_event.kind = "datagram"
    /\ mux_event.bytes = DatagramBytes("ConnectionRequest")
    /\ mux_event.was_pending
    /\ mux_event.peer \notin DOMAIN sessions
    /\ mux_event.peer \in pending
    /\ wire = <<>>
    /\ DOMAIN sessions # {}

\* C36: an outbound message for peer p is handled with p's session when
\* there is one and otherwise with a new, unannounced session inserted for p;
\* the packet is queued into it and flushed at once.  This also holds when
\* p's earlier session was evicted as Closed, so after the step the sessions
\* map has an entry for p.
C36_OutboundHasSession ==
    [][mux_event'.kind = "outbound" =>
          LET p == mux_event'.peer IN
              /\ p \in DOMAIN sessions'
              /\ DOMAIN sessions' = DOMAIN sessions \cup {p}
              /\ \A q \in DOMAIN sessions \ {p} : sessions'[q] = sessions[q]
              /\ p \in DOMAIN sessions =>
                     /\ sessions'[p].announced = sessions[p].announced
                     /\ sessions'[p].pending_rx = sessions[p].pending_rx
                     /\ sessions'[p].last_activity = sessions[p].last_activity
              /\ p \notin DOMAIN sessions =>
                     sessions'[p] = NewSessionState(now)
              /\ wire' # <<>>
              /\ wire'[1] = Sent(p, Packet("UserData"))
              /\ pending' = pending
              /\ new_conns' = new_conns
              /\ to_app' = to_app]_vars

\* The application, whose connection to the peer ended with the terminal
\* error of an evicted session, has sent a message: the peer has a new session
\* that is not announced
C36_Witness ==
    /\ mux_event.kind = "outbound"
    /\ mux_event.peer \in Handles
    /\ to_app[mux_event.peer] # <<>>
    /\ to_app[mux_event.peer][Len(to_app[mux_event.peer])].item # "Bytes"
    /\ mux_event.peer \in DOMAIN sessions
    /\ sessions[mux_event.peer] = NewSessionState(now)
    /\ SentTo(mux_event.peer, "UserData")

\* The items the step adds to the application channel of p
NewItems(p) == SubSeq(to_app'[p], Len(to_app[p]) + 1, Len(to_app'[p]))

\* C37: the application receives at most one error item (Disconnected(reason)
\* or ConnectionClosed) per session entry, only if the session was announced,
\* and no message after it, whether the tick or the datagram path finds the
\* session Closed: every step only appends to a channel, an error item is the
\* last item of its step, it goes to a session that is in the map and
\* announced, and the step that sends it removes the entry; a message goes only to a session that is in the map.
C37_OneTerminalError ==
    [][\A p \in Peers :
          /\ Len(to_app'[p]) >= Len(to_app[p])
          /\ SubSeq(to_app'[p], 1, Len(to_app[p])) = to_app[p]
          /\ \A i \in 1..Len(NewItems(p)) :
                 IF NewItems(p)[i].item = "Bytes"
                   THEN p \in DOMAIN sessions
                   ELSE /\ i = Len(NewItems(p))
                        /\ p \in DOMAIN sessions
                        /\ sessions[p].announced
                        /\ NewItems(p)[i].item \in {"Disconnected", "ConnectionClosed"}
                        /\ p \notin DOMAIN sessions']_vars

\* The datagram path found a session Closed that had timed out in the flush
\* of an outbound message: its application has the one error item, after a
\* message, and the entry is gone
C37_Witness ==
    /\ mux_event.kind = "datagram"
    /\ mux_event.peer \notin DOMAIN sessions
    /\ Len(to_app[mux_event.peer]) = 2
    /\ to_app[mux_event.peer][1] = AppBytes
    /\ to_app[mux_event.peer][2] = Disconnected("TimedOut")

(***************************************************************************)
(* SpecBlock: the muxer task and an application that leaves the items of a *)
(* connection in its channel until the channel is full                     *)
(***************************************************************************)
\* mpsc::channel(128), the to_app channel of a session
CHANNEL_CAPACITY == 128

\* Items sent on a peer's channels over the whole run
MaxBlockItems == 130

\* Items in the channel of p that the application has not received
Occupancy(p) == Len(to_app[p]) - app_taken[p]

\* A send that completes at once whether or not the channel has a free slot
HasRoomAlways(m, p) == TRUE

\* Sender::send(..).await completes when the channel has a free slot for the
\* item the handler sends to p
HasRoom(m, p) == Len(m.to_app[p]) - app_taken[p] <= CHANNEL_CAPACITY

\* The muxer task runs the handler of a datagram from p; at a send to a full
\* channel the task is suspended inside the handler
\* (m is what dispatch_datagram makes of the muxer's maps and channels)
BlockDeliver(p, bytes, m) ==
    IF HasRoom(m, p)
      THEN /\ MuxAssign(m)
           /\ received' = [received EXCEPT ![p] = HandshakeProgress(received[p], bytes)]
           /\ mux_event' = [kind |-> "datagram", peer |-> p, bytes |-> bytes,
                            before |-> <<>>, was_pending |-> p \in pending]
           /\ awaiting' = NoSend
           /\ UNCHANGED <<now, ticked, listener_open, handles_dropped, muxer_running,
                          advertisement, app_taken, call, txVars, rxVars>>
      ELSE /\ awaiting' = [some |-> TRUE, peer |-> p, bytes |-> bytes]
           /\ wire' = <<>>
           /\ mux_event' = NoEvent
           /\ UNCHANGED <<now, sessions, pending, to_app, new_conns, received, ticked,
                          listener_open, handles_dropped, muxer_running, advertisement,
                          app_taken, call, txVars, rxVars>>

\* What a peer sends next: its handshake in order, then messages, or a
\* DisconnectionNotification
BlockBytes(p) ==
    IF received[p] = 0
      THEN {OfflineBytes("OpenConnectionRequest1", RAKNET_PROTOCOL_VERSION)}
    ELSE IF received[p] = 1 THEN {OfflineBytes("OpenConnectionRequest2", 0)}
    ELSE IF received[p] = 2 THEN {DatagramBytes("ConnectionRequest")}
    ELSE IF p \in DOMAIN sessions
      THEN {DatagramBytes("UserData"), DatagramBytes("DisconnectionNotification")}
    ELSE {}

\* socket.recv_from returned a datagram: only a task that is in its select
BlockRecv ==
    \E p \in Peers : \E bytes \in BlockBytes(p) :
        /\ ~awaiting.some
        /\ Len(to_app[p]) < MaxBlockItems
        /\ p = "p2" => Len(to_app[p]) < MaxInbox
        /\ BlockDeliver(p, bytes, DispatchDatagram(MuxState, p, bytes, now, TRUE))

\* The suspended send is polled again
BlockResume ==
    /\ awaiting.some
    /\ Occupancy(awaiting.peer) < CHANNEL_CAPACITY
    /\ BlockDeliver(awaiting.peer, awaiting.bytes,
                    DispatchDatagram(MuxState, awaiting.peer, awaiting.bytes, now, TRUE))

BlockSend == ~awaiting.some /\ \E p \in Handles : MuxOutbound(p)

BlockTick == ~awaiting.some /\ ~ticked /\ MuxTick

\* The application receives an item of p's connection; it does so only once
\* the channel is full
AppReceive(p) ==
    /\ Occupancy(p) = CHANNEL_CAPACITY
    /\ app_taken' = [app_taken EXCEPT ![p] = app_taken[p] + 1]
    /\ wire' = <<>>
    /\ mux_event' = NoEvent
    /\ UNCHANGED <<now, sessions, pending, to_app, new_conns, received, ticked,
                   listener_open, handles_dropped, muxer_running, advertisement,
                   awaiting, call, txVars, rxVars>>

BlockAppReceive == \E p \in Peers : AppReceive(p)

BlockNext == BlockRecv \/ BlockResume \/ BlockSend \/ BlockTick \/ BlockAppReceive

SpecBlock == SessionInit /\ [][BlockNext]_vars

\* The muxer is suspended in a send to a channel that is full
Blocked == awaiting.some /\ Occupancy(awaiting.peer) = CHANNEL_CAPACITY

\* C38: when the application does not receive on a connection and the
\* session's channel of 128 slots is full, the muxer blocks in the send of the
\* next message or of the terminal error for that session: a channel never
\* holds more than 128 items, and from a state in which the muxer is blocked
\* the only step is the application receiving an item of that connection; no
\* tick, outbound message or datagram is processed, for this session or any
\* other.
C38_FullChannelBlocksMuxer ==
    /\ [](\A p \in Peers : Occupancy(p) <= CHANNEL_CAPACITY)
    /\ [][Blocked =>
              /\ app_taken' = [app_taken EXCEPT ![awaiting.peer] = @ + 1]
              /\ UNCHANGED <<sessions, pending, to_app, new_conns, received, ticked,
                             awaiting>>]_vars

\* The muxer is blocked in the send of the terminal error of a session whose
\* channel is full, after the application had received once; the other peer
\* has a Connected session
C38_Witness ==
    /\ Blocked
    /\ awaiting.bytes = DatagramBytes("DisconnectionNotification")
    /\ app_taken[awaiting.peer] > 0
    /\ \E q \in DOMAIN sessions \ {awaiting.peer} : sessions[q].state = "Connected"

(***************************************************************************)
(* Claims about the frames queue_packet builds                             *)
(***************************************************************************)
\* All frames queued so far
QueuedFrames ==
    {queue_log[i].frames[1] : i \in 1..Len(queue_log)}

\* bit_length is 8 times the payload's byte count, so that the decoder reads
\* as many payload bytes as were written
BitLengthExact(f) ==
    /\ f.bit_length = 8 * PayloadLen(f.payload)
    /\ FramePayloadLen(f) = PayloadLen(f.payload)

\* C39: for every frame the outbound path produces, bit_length is 8 times the
\* payload's byte count, without truncation, so that ceil(bit_length / 8) is
\* the number of payload bytes written, for every payload length the path
\* accepts.
C39_BitLengthExact == \A f \in QueuedFrames : BitLengthExact(f)

\* What holds: payloads of less than 8192 bytes have an exact bit_length, and
\* the queued frame always carries the whole payload
BitLengthExactBelow8192 ==
    \A i \in 1..Len(queue_log) :
        /\ Len(queue_log[i].frames) = 1
        /\ PayloadLen(queue_log[i].frames[1].payload) = queue_log[i].len
        /\ queue_log[i].len < 8192 => BitLengthExact(queue_log[i].frames[1])
        /\ queue_log[i].frames[1].bit_length = (8 * queue_log[i].len) % U16_MODULUS

(***************************************************************************)
(* SpecIndex: messages queued by a session whose counters are at 0 or at   *)
(* the last 24-bit value                                                   *)
(***************************************************************************)
MaxIndexQueued == 3

IndexChannels == {0, 2}

\* A session that has queued no, 2^24 - 1 or 2^24 reliable messages, and as
\* many ordered ones on channel 0, before the messages the check follows
IndexInit ==
    /\ now = 0
    /\ next_reliable \in {0, MASK}
    /\ \E w \in {0, MASK} :
           order_write = [c \in 0..(MAXIMUM_ORDERING_CHANNELS - 1) |->
                              IF c = 0 THEN w ELSE 0]
    /\ outgoing = <<>>
    /\ panicked = FALSE
    /\ queue_log = <<>>
    /\ send_seq = 0
    /\ sent_datagrams = EmptyMap
    /\ incoming_acks = <<>>
    /\ incoming_naks = <<>>
    /\ on_ack_log = <<>>
    /\ on_nak_log = <<>>
    /\ emitted = <<>>
    /\ last_processed = NoProcessing
    /\ flushed_seqs = {}
    /\ acked_seqs = {}
    /\ RxInit
    /\ MuxInit

IndexNext ==
    \E rel \in Reliabilities, channel \in IndexChannels :
        /\ Len(queue_log) < MaxIndexQueued
        /\ QueuePacket(1, rel, channel)
        /\ UNCHANGED <<rxVars, muxVars>>

SpecIndex == IndexInit /\ [][IndexNext]_vars

\* The counters after the i-th queued message
ReliableAfter(i) ==
    IF i < Len(queue_log) THEN queue_log[i + 1].reliable_before ELSE next_reliable

OrderAfter(i) ==
    IF i < Len(queue_log) THEN queue_log[i + 1].order_before ELSE order_write

\* The queued messages before the i-th that are reliable / ordered on channel c
ReliableBefore(i) == {j \in 1..(i - 1) : IsReliable(queue_log[j].reliability)}

OrderedBefore(i, c) ==
    {j \in 1..(i - 1) : IsOrdered(queue_log[j].reliability) /\ queue_log[j].channel = c}

Latest(S) == CHOOSE j \in S : \A k \in S : k <= j

\* C40: over any sequence of queued messages each reliable frame has the
\* reliable_index of the reliable frame before it plus 1 (mod 2^24), each
\* ordered message on channel c has the ordering_index of the ordered message
\* before it on c plus 1 (mod 2^24), queuing on channel c leaves the ordering
\* counters of the other channels as they were, and queuing an unreliable
\* message changes neither the reliable counter nor any ordering counter.
C40_IndicesAdvanceByOne ==
    \A i \in 1..Len(queue_log) :
        LET e == queue_log[i]
            f == e.frames[1]
        IN  /\ (IsReliable(e.reliability) /\ ReliableBefore(i) # {}) =>
                   f.reliable_index =
                       (queue_log[Latest(ReliableBefore(i))].frames[1].reliable_index + 1)
                           % MODULO
            /\ (IsOrdered(e.reliability) /\ OrderedBefore(i, e.channel) # {}) =>
                   /\ f.ordering_channel = e.channel
                   /\ f.ordering_index =
                          (queue_log[Latest(OrderedBefore(i, e.channel))]
                               .frames[1].ordering_index + 1) % MODULO
            /\ \A c \in 0..(MAXIMUM_ORDERING_CHANNELS - 1) :
                   (c # e.channel \/ ~IsOrdered(e.reliability)) =>
                       OrderAfter(i)[c] = e.order_before[c]
            /\ ~IsReliable(e.reliability) => ReliableAfter(i) = e.reliable_before
            /\ e.reliability = Unreliable =>
                   /\ ReliableAfter(i) = e.reliable_before
                   /\ OrderAfter(i) = e.order_before

\* A reliable ordered message with the last 24-bit indices, an unreliable
\* message, and a reliable ordered message on the same channel whose indices
\* have wrapped to 0
C40_Witness ==
    /\ Len(queue_log) = 3
    /\ queue_log[1].reliability = ReliableOrdered
    /\ queue_log[1].channel = 0
    /\ queue_log[1].frames[1].reliable_index = MASK
    /\ queue_log[1].frames[1].ordering_index = MASK
    /\ queue_log[2].reliability = Unreliable
    /\ queue_log[3].reliability = ReliableOrdered
    /\ queue_log[3].channel = 0
    /\ queue_log[3].frames[1].reliable_index = 0
    /\ queue_log[3].frames[1].ordering_index = 0

=============================================================================
